---- MODULE Spec2Model ----
(***************************************************************************)
(* A model of the Wildberries report bot: the two request executors         *)
(* (wb_api._fetch_with_simple_retry, wb_advert._make_advert_request), the   *)
(* orders cursor walk, the chunked range fetchers, the paid-storage job     *)
(* poller, the advertising pipeline and the report orchestrator             *)
(* (analytic_report.fill_pnl_report).                                       *)
(*                                                                         *)
(* Each component has its own variables and its own specification; a       *)
(* specification leaves the variables of the other components at their     *)
(* idle values.  Python's None is the status NONE where a status is        *)
(* expected and a record of kind "None" where a value is expected.         *)
(***************************************************************************)
EXTENDS Integers, Sequences, FiniteSets, TLC

VARIABLES
    ex_fn,        \* executor under call: "simple" | "advert" | "idle"
    ex_attempt,   \* the loop variable `attempt` of the executor
    ex_pc,        \* "loop" (inside the for loop) | "done" (returned or raised)
    ex_log,       \* what the call did so far: requests sent and sleeps slept
    ex_ret        \* the value returned by the call

execVars == <<ex_fn, ex_attempt, ex_pc, ex_log, ex_ret>>

VARIABLES
    ord_feed,     \* the seller's orders as the orders endpoint holds them
    ord_start,    \* start_date (a day)
    ord_end,      \* end_date (a day)
    ord_cursor,   \* current_date_from
    ord_raw,      \* all_orders_raw
    ord_pages,    \* page requests issued so far (calls of the executor)
    ord_fault,    \* the walk was cut short by a missing lastChangeDate
    ord_pc,       \* "walk" | "done" | "idle"
    ord_ret,      \* the value returned by get_wb_orders
    ord_last      \* what the executor returned for the last page request

ordVars == <<ord_feed, ord_start, ord_end, ord_cursor, ord_raw, ord_pages,
             ord_fault, ord_pc, ord_ret, ord_last>>

VARIABLES
    rg_fn,        \* range fetcher under call: "weekly" | "storage" |
                  \* "fullstats" | "idle"
    rg_profile,   \* which days the seller has report rows for
    rg_start,     \* start_date (a day)
    rg_end,       \* end_date (a day)
    rg_cur,       \* current_start
    rg_windows,   \* the sub-windows requested so far, <<date_from, date_to>> each
    rg_data,      \* all_report_data
    rg_sleeps,    \* the pacing sleeps of the range fetcher, in seconds each
    rg_cut,       \* records were lost: a pagination cut short (no rrd_id), or a
                  \* statistics request that brought no data back
    rg_pc,        \* "chunk" (inside a sub-window fetch) | "done" | "idle"
    rg_ret,       \* the value returned by the range fetcher
    rg_results,   \* how each finished sub-window fetch ended, "list" or "None";
                  \* for the statistics, per request: the answer that ended the
                  \* executor call and the branch _get_fullstats_data took
    dt_rrdid,     \* _get_single_report_detail_chunk: rrdid
    dt_all,       \* _get_single_report_detail_chunk: all_data
    dt_last,      \* what the executor returned for the last page request
    dt_pages,     \* non-empty pages received by get_wb_weekly_report so far
    dt_paced,     \* those of them whose last row carried an rrd_id
    st_pc,        \* _get_single_paid_storage_chunk: "create" | "poll" | "idle"
    st_wait,      \* _get_single_paid_storage_chunk: wait_time
    st_job        \* _get_single_paid_storage_chunk: last polled status of the
                  \* current job, the number of its status polls and download
                  \* requests, and the seconds slept before its polls

rangeVars == <<rg_fn, rg_profile, rg_start, rg_end, rg_cur, rg_windows, rg_data,
               rg_sleeps, rg_cut, rg_pc, rg_ret, rg_results, dt_rrdid, dt_all, dt_last,
               dt_pages, dt_paced, st_pc, st_wait, st_job>>

VARIABLES
    fs_ids,       \* _get_fullstats_data: campaign_ids
    fs_i,         \* _get_fullstats_data: the loop variable `i` of the ID batches
    fs_gap        \* the fewest seconds slept between two successive requests of
                  \* _get_fullstats_data so far (NONE before the second request)

fsVars == <<fs_ids, fs_i, fs_gap>>

VARIABLES
    ad_account,   \* the seller's advertising account as the advert API holds it
    ad_profile,   \* which days the seller's campaigns have statistics for
    ad_targets,   \* target_nm_ids
    ad_start,     \* start_date (a day)
    ad_end,       \* end_date (a day)
    ad_active,    \* _get_relevant_campaign_ids: all_active_ids_list
    ad_i,         \* _get_relevant_campaign_ids: the loop variable `i`
    ad_details,   \* _get_relevant_campaign_ids: campaign_details
    ad_sleeps,    \* the sleeps after metadata requests, in seconds each
    ad_batches,   \* the id_chunk of every metadata request sent so far
    ad_failed,    \* requests of the call that the executor gave up on
    ad_pc,        \* "count" | "details" | "fullstats" | "done" | "idle"
    ad_ret        \* the value returned by get_aggregated_ad_costs

adVars == <<ad_account, ad_profile, ad_targets, ad_start, ad_end, ad_active, ad_i,
            ad_details, ad_sleeps, ad_batches, ad_failed, ad_pc, ad_ret>>

VARIABLES
    rp_key,       \* the API key db.get_user_data has for the shop: "absent" |
                  \* "valid" | "invalid" (WB answers 401 to it)
    rp_pc,        \* fill_pnl_report: "open" | "gather" | "ads" | "pnl" |
                  \* "analytics" | "unit" | "done" | "idle"
    rp_sheet,     \* the spreadsheet of the run: "none" | "created" | "deleted" |
                  \* "delete_failed"
    rp_tabs,      \* the report sheets written to, wholly or in part
    rp_filled,    \* the report sheets filled to the end
    rp_report,    \* report_data
    rp_orders,    \* orders_data
    rp_storage,   \* storage_data
    rp_cut,       \* the fetches that returned records but were cut short
    rp_finished,  \* the fetches of asyncio.gather that have finished, in the
                  \* order they finished in
    rp_storage_costs, \* storage_costs
    rp_unit,      \* rows_to_insert of fill_unit_economics_sheet, by nmId
    rp_sums,      \* per report sheet filled, the penalties it accumulated by key
    rp_targets,   \* target_nm_ids
    rp_ads,       \* ad_costs
    rp_ad_reqs,   \* get_aggregated_ad_costs sent requests to the advert API
    rp_dels,      \* calls of gc.del_spreadsheet by fill_pnl_report
    rp_ret        \* the value returned by fill_pnl_report

reportVars == <<rp_key, rp_pc, rp_sheet, rp_tabs, rp_filled, rp_report, rp_orders, rp_storage,
                rp_cut, rp_finished, rp_storage_costs, rp_unit, rp_sums, rp_targets,
                rp_ads, rp_ad_reqs, rp_dels, rp_ret>>

(***************************************************************************)
(* main.py: the bot process.                                               *)
(***************************************************************************)
VARIABLES
    bot_pc,        \* "startup": main() has not reached start_polling yet
    sch_state,     \* state of the AsyncIOScheduler: "stopped" or "running"
    sch_pending,   \* ids of the jobs added while the scheduler was stopped
    sch_jobs,      \* ids of the jobs in the job store of a running scheduler
    sch_clock,     \* Moscow time of day, <<hour, minute>>
    sch_refreshed, \* refresh_token has been called
    hd_pc,         \* generate_and_send_report: "run" while it awaits
                   \* fill_pnl_report, "menu" once it has answered
    hd_tasks,      \* schedule_sheet_deletion tasks created
    hd_ran,        \* those of them that have slept and run their body
    hd_slept,      \* hours the task that ran last had slept
    hd_attempts,   \* tasks that tried to delete the spreadsheet
    ks_state,      \* the user's conversation state (ShopStates)
    ks_stored,     \* users.api_key of the user
    ks_answers,    \* what WB answered when the stored key was validated
    ks_last        \* the last key a handler validated, with the verdict

schedVars == <<bot_pc, sch_state, sch_pending, sch_jobs, sch_clock, sch_refreshed>>
handlerVars == <<hd_pc, hd_tasks, hd_ran, hd_slept, hd_attempts>>
keyVars == <<ks_state, ks_stored, ks_answers, ks_last>>
botVars == <<schedVars, handlerVars, keyVars>>

vars == <<execVars, ordVars, rangeVars, fsVars, adVars, reportVars, botVars>>

(***************************************************************************)
(* Program constants                                                       *)
(***************************************************************************)
MAX_RETRIES == 3
RETRY_DELAY == 60
ADVERT_MAX_RETRIES == 3
ADVERT_RETRY_DELAY == 61
ADVERT_NET_DELAY == 10

\* The status reported when there is no HTTP status (Python's None).
NONE == -1

(***************************************************************************)
(* HTTP responses.  A response is either an exception raised by the        *)
(* request (exc = "net": aiohttp.ClientError / asyncio.TimeoutError;       *)
(* exc = "other": any other exception) or a status with a body.            *)
(***************************************************************************)
Statuses == {200, 204, 302, 400, 404, 429, 500, 503}
ExecBodies == {"bodyA", "bodyB"}

NoneBody == [kind |-> "None"]
TextBody(t) == [kind |-> "text", text |-> t]

HttpResp(s, b) == [exc |-> "none", status |-> s, body |-> b]
ExcResp(k) == [exc |-> k, status |-> NONE, body |-> NoneBody]

ExecResponses ==
    {HttpResp(s, TextBody(t)) : s \in Statuses, t \in ExecBodies}
        \cup {ExcResp("net"), ExcResp("other")}

\* What one pass through the body of an executor's loop decides.
Continue(secs) == [done |-> FALSE, sleep |-> secs, ret |-> NoneBody]
Return(v) == [done |-> TRUE, sleep |-> 0, ret |-> v]

Tuple(s, b) == [kind |-> "tuple", status |-> s, body |-> b]
Response(r) == [kind |-> "response", status |-> r.status, body |-> r.body]
Raised == [kind |-> "raised"]

(***************************************************************************)
(* wb_api._fetch_with_simple_retry: the body of `for attempt in            *)
(* range(1, MAX_RETRIES + 1)` for one response.                            *)
(***************************************************************************)
FetchRetryAllowed(attempt) == attempt < MAX_RETRIES

FetchStep(attempt, r) ==
    IF r.exc # "none"
    THEN IF FetchRetryAllowed(attempt)
         THEN Continue(RETRY_DELAY \div 2)
         ELSE Return(Tuple(NONE, NoneBody))
    ELSE IF r.status = 200
    THEN Return(Tuple(200, r.body))
    ELSE IF r.status = 429
    THEN IF FetchRetryAllowed(attempt)
         THEN Continue(RETRY_DELAY)
         ELSE Return(Tuple(429, r.body))
    ELSE IF 400 <= r.status /\ r.status < 500
    THEN Return(Tuple(r.status, r.body))
    ELSE IF FetchRetryAllowed(attempt)
         THEN Continue(RETRY_DELAY \div 2)
         ELSE Return(Tuple(r.status, r.body))

\* `for attempt in range(1, MAX_RETRIES + 1)`: is there a next iteration?
FetchLoopHasNext(attempt) == attempt + 1 <= MAX_RETRIES

\* The statement after the loop.
FetchFallThrough == Tuple(NONE, NoneBody)

(***************************************************************************)
(* wb_advert._make_advert_request: the body of `for attempt in             *)
(* range(MAX_RETRIES)` for one response.                                   *)
(***************************************************************************)
AdvertBackoffFixed(attempt) == ADVERT_RETRY_DELAY

\* `wait_time = RETRY_DELAY * (2 ** attempt)`
AdvertBackoff(attempt) == ADVERT_RETRY_DELAY * (2 ^ attempt)

AdvertStep(attempt, r) ==
    IF r.exc = "net"
    THEN Continue(ADVERT_NET_DELAY * (2 ^ attempt))
    ELSE IF r.exc = "other"
    THEN Return(Raised)
    ELSE IF r.status \in {200, 204}
    THEN Return(Response(r))
    ELSE IF r.status = 429 \/ r.status >= 500
    THEN Continue(AdvertBackoff(attempt))
    ELSE Return(NoneBody)

\* `for attempt in range(MAX_RETRIES)`: is there a next iteration?
AdvertLoopHasNextOffByOne(attempt) == attempt + 1 < ADVERT_MAX_RETRIES + 1

AdvertLoopHasNext(attempt) == attempt + 1 < ADVERT_MAX_RETRIES

AdvertFallThrough == NoneBody

(***************************************************************************)
(* Time.  A datetime is a day number and a time of day; the times of day   *)
(* told apart are midnight, noon, the last whole second of the day and an  *)
(* instant inside that last second.  All datetimes are Moscow time.        *)
(***************************************************************************)
TimesOfDay == <<"00:00:00", "12:00:00", "23:59:59", "23:59:59.500000">>
TicksPerDay == Len(TimesOfDay)
TimeOfDay(t) == (CHOOSE i \in 1..Len(TimesOfDay) : TimesOfDay[i] = t) - 1

DateTime(day, t) == day * TicksPerDay + TimeOfDay(t)
DayOf(dt) == dt \div TicksPerDay

\* record.get("date") is None, and a 'date' that datetime.fromisoformat rejects.
NoDate == -1
BadDate == -2

(***************************************************************************)
(* wb_api._is_within_date_range                                            *)
(***************************************************************************)
IsWithinChangeDateRange(record, start_dt_moscow, end_dt_moscow) ==
    /\ record.lastChangeDate # NoDate
    /\ start_dt_moscow <= record.lastChangeDate
    /\ record.lastChangeDate <= end_dt_moscow

_is_within_date_range(record, start_dt_moscow, end_dt_moscow) ==
    IF record.date = NoDate THEN FALSE
    ELSE IF record.date = BadDate THEN FALSE
    ELSE start_dt_moscow <= record.date /\ record.date <= end_dt_moscow

\* get_wb_orders: start_date.replace(hour=0, minute=0, second=0) and
\* end_date.replace(hour=23, minute=59, second=59) of dates given at midnight.
StartDtMoscow(start_date) == DateTime(start_date, "00:00:00")
EndDtMoscow(end_date) == DateTime(end_date, "23:59:59")

\* get_wb_orders: the final filter over all_orders_raw.
FilteredOrders(raw, start_date, end_date) ==
    SelectSeq(raw, LAMBDA r :
        _is_within_date_range(r, StartDtMoscow(start_date), EndDtMoscow(end_date)))

(***************************************************************************)
(* The orders endpoint (GET /api/v1/supplier/orders, flag=0), as the walk  *)
(* relies on it: a page holds the records changed after dateFrom, oldest   *)
(* change first, at most PageLimit of them; records that carry no          *)
(* lastChangeDate come last.                                               *)
(***************************************************************************)
PageLimit == 2
MaxFeed == 3

Range(f) == {f[i] : i \in DOMAIN f}
Min(a, b) == IF a <= b THEN a ELSE b

OrderRecord(date, lcd) == [date |-> date, lastChangeDate |-> lcd]

ChangeKey(r, feed) ==
    IF r.lastChangeDate = NoDate
    THEN 1 + Cardinality(feed)
         + (CHOOSE m \in {x.lastChangeDate : x \in feed} :
                \A x \in feed : x.lastChangeDate <= m)
    ELSE r.lastChangeDate

ChangedAfter(feed, dateFrom) ==
    {r \in feed : r.lastChangeDate = NoDate \/ r.lastChangeDate > dateFrom}

OrdersEndpoint(feed, dateFrom) ==
    LET el == ChangedAfter(feed, dateFrom)
        n == Min(PageLimit, Cardinality(el))
    IN  {p \in [1..n -> el] :
            /\ \A i, j \in 1..n : i < j =>
                   /\ p[i] # p[j]
                   /\ ChangeKey(p[i], feed) <= ChangeKey(p[j], feed)
            /\ \A r \in el \ Range(p) :
                   n > 0 => ChangeKey(p[n], feed) <= ChangeKey(r, feed)}

\* The windows and the feeds the walk is run on.
OrderWindows == {<<1, 1>>, <<1, 2>>}

FeedDates(s, e) ==
    {DateTime(s, "00:00:00") - 1, DateTime(s, "00:00:00"), DateTime(e, "23:59:59"),
     DateTime(e, "23:59:59.500000"), DateTime(e + 1, "00:00:00"), NoDate, BadDate}

FeedChangeDates(s, e) ==
    {DateTime(s, "00:00:00"), DateTime(s, "12:00:00"), DateTime(e + 1, "00:00:00"),
     DateTime(e + 1, "12:00:00"), NoDate}

\* An order is never changed before it is created.
FeedRecords(s, e) ==
    {r \in {OrderRecord(d, c) : d \in FeedDates(s, e), c \in FeedChangeDates(s, e)} :
        (r.date >= 0 /\ r.lastChangeDate >= 0) => r.date <= r.lastChangeDate}

Feeds(s, e) == {{}} \cup {Range(f) : f \in [1..MaxFeed -> FeedRecords(s, e)]}

\* What a request of a fetcher can come back with from the executor: a JSON
\* list, a JSON object with or without data.taskId, or a failure.
JsonList == [kind |-> "list"]
JsonDict == [kind |-> "dict"]
JsonTask == [kind |-> "dict", taskId |-> "task"]

PageResponses ==
    {HttpResp(200, JsonList), HttpResp(200, JsonDict), HttpResp(200, JsonTask),
     HttpResp(429, TextBody("bodyA")), HttpResp(404, TextBody("bodyA")),
     HttpResp(500, TextBody("bodyA")), ExcResp("net")}

(***************************************************************************)
(* The chunked range fetchers: wb_api.get_wb_weekly_report and             *)
(* wb_api.get_wb_paid_storage_report.  Dates are days.                     *)
(***************************************************************************)
\* `current_start + timedelta(days=6)` and `current_start + timedelta(days=7)`
WEEKLY_CHUNK_DELTA == 6
STORAGE_CHUNK_DELTA == 7
STORAGE_CHUNK_SLEEP == 61
DETAIL_PAGE_SLEEP == 1
PAID_STORAGE_MAX_WAIT_TIME == 300
PAID_STORAGE_STATUS_CHECK_INTERVAL == 5

\* wb_advert._get_fullstats_data: `current_start_date + timedelta(days=29)`,
\* `current_start_date += timedelta(days=30)`, `id_chunk_size = 100`
FULLSTATS_CHUNK_DELTA == 29
FULLSTATS_WINDOW_STEP == 30
FULLSTATS_ID_CHUNK_SIZE == 100
FULLSTATS_REQUEST_DELAY == 21
\* wb_advert._get_relevant_campaign_ids: `chunk_size = 50`
DETAILS_CHUNK_SIZE == 50
REQUEST_DELAY == 1

ChunkDelta(fn) ==
    CASE fn = "weekly" -> WEEKLY_CHUNK_DELTA
      [] fn = "storage" -> STORAGE_CHUNK_DELTA
      [] OTHER -> FULLSTATS_CHUNK_DELTA

\* `chunk_end = min(end_date, current_start + timedelta(days=...))`
ChunkEnd(fn, current_start, end_date) == Min(end_date, current_start + ChunkDelta(fn))

\* `current_start = chunk_end + timedelta(days=1)`
NextStartWithGap(chunk_end) == chunk_end + 2

NextStart(chunk_end) == chunk_end + 1

\* The ranges the fetchers are run on, and the rows the seller has.
MaxSpan == 17
DetailPageLimit == 4
RangeStarts == {0, 3}
Ranges == {<<s, s + n>> : s \in RangeStarts, n \in 0..MaxSpan}
MaxAdSpan == 61
\* The spans of the advertising ranges: those at the edges of the sub-windows.
AdSpans == {n \in 0..MaxAdSpan : n % FULLSTATS_WINDOW_STEP \in {0, FULLSTATS_CHUNK_DELTA}}
AdRanges == {<<s, s + n>> : s \in RangeStarts, n \in AdSpans}
Profiles == {"none", "daily", "sparse"}

HasRow(profile, day) ==
    CASE profile = "none" -> FALSE
      [] profile = "daily" -> TRUE
      [] OTHER -> day % 3 = 0

RECURSIVE RowsOf(_, _, _)
RowsOf(profile, from, to) ==
    IF from > to THEN <<>>
    ELSE (IF HasRow(profile, from) THEN <<from>> ELSE <<>>)
             \o RowsOf(profile, from + 1, to)

\* The row identifier (rrd_id) of the report row of a day.
RrdId(day) == day + 1

(***************************************************************************)
(* The detail-report endpoint (reportDetailByPeriod): the rows of          *)
(* [dateFrom, dateTo] whose rrd_id is above rrdid, in rrd_id order, at     *)
(* most DetailPageLimit of them.  The paid-storage download: the rows of   *)
(* the job's window.                                                       *)
(***************************************************************************)
DetailEndpoint(profile, window, rrdid) ==
    LET rows == SelectSeq(RowsOf(profile, window[1], window[2]),
                          LAMBDA d : RrdId(d) > rrdid)
    IN  SubSeq(rows, 1, Min(DetailPageLimit, Len(rows)))

StorageDownload(profile, window) == RowsOf(profile, window[1], window[2])

\* Answers to a status poll and to a download of a paid-storage job.
PollAnswers ==
    {"in_progress", "done", "error", "canceled", "purged", "non200", "exception"}
DownloadAnswers == {"ok", "non200", "exception"}

\* The downloads of one job that the network may fail with an exception.
MaxDownloadFaults == 2

NoJob == [status |-> "none", downloads |-> 0, polls |-> 0, slept |-> 0]

NewJob == [status |-> "created", downloads |-> 0, polls |-> 0, slept |-> 0]

FailedJobStatuses == {"error", "canceled", "purged"}

(***************************************************************************)
(* The advert API as the advertising pipeline sees it.  An account holds   *)
(* campaigns 1..n; with the mix "mixed" every third campaign is not in an  *)
(* active status, and of the active ones some ended on day 1, some have no *)
(* or an unreadable end time, and some advertise only articles outside the *)
(* targets.                                                                *)
(***************************************************************************)
TargetNm == "nmA"
ForeignNm == "nmB"

CampaignCounts == {0, 1, DETAILS_CHUNK_SIZE + 1, FULLSTATS_ID_CHUNK_SIZE + 1}
CampaignMixes == {"active", "inactive", "mixed"}
Accounts == [n : CampaignCounts, mix : CampaignMixes]

\* status of the campaign's group in promotion/count is one of 7, 9, 11
IsActiveCampaign(account, c) ==
    CASE account.mix = "active" -> TRUE
      [] account.mix = "inactive" -> FALSE
      [] OTHER -> c % 3 # 0

\* campaign.get("endTime"): a day, NoDate for a campaign without endTime,
\* BadDate for an endTime that datetime.fromisoformat rejects.
CampaignEndTime(account, c) ==
    CASE account.mix = "mixed" /\ c % 6 = 2 -> 1
      [] account.mix = "mixed" /\ c % 12 = 1 -> BadDate
      [] account.mix = "mixed" /\ c % 12 = 4 -> NoDate
      [] OTHER -> 100

\* `if end_time_str:` ... `if end_date_naive < start_date_naive: continue`
EndedBeforeStart(account, c, start_date) ==
    /\ CampaignEndTime(account, c) # NoDate
    /\ CampaignEndTime(account, c) # BadDate
    /\ CampaignEndTime(account, c) < start_date

\* the nms of unitedParams / autoParams of the campaign
CampaignNms(account, c) ==
    IF account.mix = "mixed" /\ c % 6 = 5 THEN {ForeignNm} ELSE {TargetNm}

\* Campaigns that spent money: the first of every hundred.
HasSpend(c) == c % FULLSTATS_ID_CHUNK_SIZE = 1

\* An nm entry of the statistics without "nmId".
NoNm == "none"

\* "apps" of every day of the statistics entry of a campaign: per app the
\* "nms" list with nmId and sum. In a mixed account the spend of a campaign
\* also covers an article that is not a target and an entry without nmId.
StatApps(account, c) ==
    IF account.mix = "mixed"
    THEN << <<[nmId |-> TargetNm, sum |-> 2], [nmId |-> ForeignNm, sum |-> 5]>>,
            <<[nmId |-> TargetNm, sum |-> 3], [nmId |-> NoNm, sum |-> 7]>> >>
    ELSE << <<[nmId |-> TargetNm, sum |-> 1]>> >>

\* promotion/count: the advertId of every campaign in an active status
ActiveIds(account) ==
    SelectSeq([c \in 1..account.n |-> c], LAMBDA c : IsActiveCampaign(account, c))

\* fullstats for the IDs of a batch and [beginDate, endDate]: one entry per
\* campaign that spent in the interval, with the days it spent on.
FullstatsEndpoint(profile, id_chunk, window) ==
    LET days == RowsOf(profile, window[1], window[2])
        spenders == SelectSeq(id_chunk, HasSpend)
    IN  IF days = <<>> THEN <<>>
        ELSE [k \in 1..Len(spenders) |-> [advertId |-> spenders[k], days |-> days]]

\* The text of the 400 answer that _get_fullstats_data looks for.
NoStatsText == "there are no statistics for this advertising period"

AdvertResponses ==
    {HttpResp(200, JsonList), HttpResp(204, NoneBody), HttpResp(400, TextBody("bodyA")),
     HttpResp(400, TextBody(NoStatsText)), HttpResp(429, TextBody("bodyA")),
     HttpResp(500, TextBody("bodyA")), ExcResp("net"), ExcResp("other")}

\* The kind of answer that ended a call of the executor: 200, the 400 'no
\* statistics', another 4xx that is not retried, or anything else.
AnswerClass(r) ==
    CASE r.exc # "none" -> "other"
      [] r.status = 200 -> "ok"
      [] r.status = 400 /\ r.body = TextBody(NoStatsText) -> "no_stats_400"
      [] r.status >= 400 /\ r.status < 500 /\ r.status # 429 -> "other_4xx"
      [] OTHER -> "other"

EmptyDict == [kind |-> "dict", items |-> <<>>]
DictOf(f) == [kind |-> "dict", items |-> f]

(***************************************************************************)
(* The executors as state machines: one action is one iteration of the     *)
(* loop (the request, the handling of its response, the sleep).            *)
(***************************************************************************)
ReqEvent(r) == [ev |-> "req", resp |-> r]
SleepEvent(secs) == [ev |-> "sleep", secs |-> secs]

StepEvents(r, st) ==
    <<ReqEvent(r)>> \o (IF st.sleep > 0 THEN <<SleepEvent(st.sleep)>> ELSE <<>>)

\* The values a component's variables hold while another component runs.
HandlerIdle ==
    /\ hd_pc = "idle"
    /\ hd_tasks = 0
    /\ hd_ran = 0
    /\ hd_slept = 0
    /\ hd_attempts = 0

SchedIdle ==
    /\ bot_pc = "idle"
    /\ sch_state = "stopped"
    /\ sch_pending = {}
    /\ sch_jobs = {}
    /\ sch_clock = <<0, 0>>
    /\ sch_refreshed = FALSE

KeysIdle ==
    /\ ks_state = "idle"
    /\ ks_stored = "none"
    /\ ks_answers = <<>>
    /\ ks_last = <<>>

BotIdle == SchedIdle /\ HandlerIdle /\ KeysIdle

ExecIdle ==
    /\ ex_fn = "idle"
    /\ ex_attempt = 0
    /\ ex_pc = "done"
    /\ ex_log = <<>>
    /\ ex_ret = NoneBody

OrdersIdle ==
    /\ ord_feed = {}
    /\ ord_start = 0
    /\ ord_end = 0
    /\ ord_cursor = 0
    /\ ord_raw = <<>>
    /\ ord_pages = 0
    /\ ord_fault = FALSE
    /\ ord_pc = "idle"
    /\ ord_ret = NoneBody
    /\ ord_last = NoneBody

RangeIdle ==
    /\ rg_fn = "idle"
    /\ rg_profile = "none"
    /\ rg_start = 0
    /\ rg_end = 0
    /\ rg_cur = 0
    /\ rg_windows = <<>>
    /\ rg_data = <<>>
    /\ rg_sleeps = <<>>
    /\ rg_cut = FALSE
    /\ rg_pc = "idle"
    /\ rg_ret = NoneBody
    /\ rg_results = <<>>
    /\ fs_ids = <<>>
    /\ fs_i = 0
    /\ fs_gap = NONE
    /\ dt_rrdid = 0
    /\ dt_all = <<>>
    /\ dt_last = NoneBody
    /\ dt_pages = 0
    /\ dt_paced = 0
    /\ st_pc = "idle"
    /\ st_wait = 0
    /\ st_job = NoJob

AdvertIdle ==
    /\ ad_account = [n |-> 0, mix |-> "inactive"]
    /\ ad_profile = "none"
    /\ ad_targets = {}
    /\ ad_start = 0
    /\ ad_end = 0
    /\ ad_active = <<>>
    /\ ad_i = 0
    /\ ad_details = <<>>
    /\ ad_sleeps = <<>>
    /\ ad_batches = <<>>
    /\ ad_failed = FALSE
    /\ ad_pc = "idle"
    /\ ad_ret = NoneBody

ReportIdle ==
    /\ rp_key = "absent"
    /\ rp_pc = "idle"
    /\ rp_sheet = "none"
    /\ rp_tabs = {}
    /\ rp_filled = {}
    /\ rp_report = NoneBody
    /\ rp_orders = NoneBody
    /\ rp_storage = NoneBody
    /\ rp_cut = {}
    /\ rp_finished = <<>>
    /\ rp_storage_costs = NoneBody
    /\ rp_unit = NoneBody
    /\ rp_sums = <<>>
    /\ rp_targets = {}
    /\ rp_ads = NoneBody
    /\ rp_ad_reqs = FALSE
    /\ rp_dels = 0
    /\ rp_ret = NoneBody

FetchWithSimpleRetryAttempt ==
    /\ ex_fn = "simple"
    /\ ex_pc = "loop"
    /\ \E r \in ExecResponses :
         LET st == FetchStep(ex_attempt, r) IN
         /\ ex_log' = ex_log \o StepEvents(r, st)
         /\ IF st.done
            THEN /\ ex_pc' = "done"
                 /\ ex_ret' = st.ret
                 /\ UNCHANGED ex_attempt
            ELSE IF FetchLoopHasNext(ex_attempt)
            THEN /\ ex_attempt' = ex_attempt + 1
                 /\ UNCHANGED <<ex_pc, ex_ret>>
            ELSE /\ ex_pc' = "done"
                 /\ ex_ret' = FetchFallThrough
                 /\ UNCHANGED ex_attempt
    /\ UNCHANGED ex_fn
    /\ UNCHANGED <<botVars, ordVars, rangeVars, fsVars, adVars, reportVars>>

MakeAdvertRequestAttempt ==
    /\ ex_fn = "advert"
    /\ ex_pc = "loop"
    /\ \E r \in ExecResponses :
         LET st == AdvertStep(ex_attempt, r) IN
         /\ ex_log' = ex_log \o StepEvents(r, st)
         /\ IF st.done
            THEN /\ ex_pc' = "done"
                 /\ ex_ret' = st.ret
                 /\ UNCHANGED ex_attempt
            ELSE IF AdvertLoopHasNext(ex_attempt)
            THEN /\ ex_attempt' = ex_attempt + 1
                 /\ UNCHANGED <<ex_pc, ex_ret>>
            ELSE /\ ex_pc' = "done"
                 /\ ex_ret' = AdvertFallThrough
                 /\ UNCHANGED ex_attempt
    /\ UNCHANGED ex_fn
    /\ UNCHANGED <<botVars, ordVars, rangeVars, fsVars, adVars, reportVars>>

InitExec ==
    /\ BotIdle
    /\ ex_fn \in {"simple", "advert"}
    /\ ex_attempt = (IF ex_fn = "simple" THEN 1 ELSE 0)
    /\ ex_pc = "loop"
    /\ ex_log = <<>>
    /\ ex_ret = NoneBody
    /\ OrdersIdle
    /\ RangeIdle
    /\ AdvertIdle
    /\ ReportIdle

NextExec ==
    \/ FetchWithSimpleRetryAttempt
    \/ MakeAdvertRequestAttempt

SpecExec == InitExec /\ [][NextExec]_vars

(***************************************************************************)
(* One whole call of an executor, for the callers: the loop run over a     *)
(* script of responses, one per attempt.                                   *)
(***************************************************************************)
RECURSIVE FetchRun(_, _)
FetchRun(script, attempt) ==
    LET r == Head(script)
        st == FetchStep(attempt, r)
    IN  IF st.done
        THEN [ret |-> st.ret, events |-> StepEvents(r, st)]
        ELSE IF FetchLoopHasNext(attempt)
        THEN LET rest == FetchRun(Tail(script), attempt + 1)
             IN  [ret |-> rest.ret, events |-> StepEvents(r, st) \o rest.events]
        ELSE [ret |-> FetchFallThrough, events |-> StepEvents(r, st)]

_fetch_with_simple_retry(script) == FetchRun(script, 1)

\* Every result a page request can end with.
FetchOutcomes ==
    {_fetch_with_simple_retry(script).ret : script \in [1..MAX_RETRIES -> PageResponses]}

ListOf(items) == [kind |-> "list", items |-> items]

(***************************************************************************)
(* wb_api.get_wb_orders: one action is one pass of `while True` (a page    *)
(* request through the executor and the handling of its result); the pass  *)
(* that leaves the loop also filters and returns.                          *)
(***************************************************************************)
\* `current_date_from = last_change_date`
NextDateFromStuck(current_date_from, last_change_date) == current_date_from

NextDateFrom(current_date_from, last_change_date) == last_change_date

\* The list comprehension that get_wb_orders returns.
OrdersResultByChangeDate(raw, start_date, end_date) ==
    ListOf(SelectSeq(raw, LAMBDA r :
        IsWithinChangeDateRange(r, StartDtMoscow(start_date), EndDtMoscow(end_date))))

OrdersResult(raw, start_date, end_date) ==
    ListOf(FilteredOrders(raw, start_date, end_date))

NoLastChangeDateIgnored(last_change_date) == FALSE

\* `if not last_change_date:`
NoLastChangeDate(last_change_date) == last_change_date = NoDate

PageOkAnyBody(o) == o.status = 200

\* `if status == 200 and isinstance(data_or_text, list):`
PageOk(o) == o.status = 200 /\ o.body.kind = "list"

OrdersFetchPage ==
    /\ ord_pc = "walk"
    /\ \E o \in FetchOutcomes, data \in OrdersEndpoint(ord_feed, ord_cursor) :
         /\ ord_pages' = ord_pages + 1
         /\ ord_last' = o
         /\ IF PageOk(o)
            THEN IF data = <<>>
                 THEN /\ ord_pc' = "done"
                      /\ ord_ret' = OrdersResult(ord_raw, ord_start, ord_end)
                      /\ UNCHANGED <<ord_raw, ord_cursor, ord_fault>>
                 ELSE /\ ord_raw' = ord_raw \o data
                      /\ IF NoLastChangeDate(data[Len(data)].lastChangeDate)
                         THEN /\ ord_pc' = "done"
                              /\ ord_fault' = TRUE
                              /\ ord_ret' = OrdersResult(ord_raw', ord_start, ord_end)
                              /\ UNCHANGED ord_cursor
                         ELSE /\ ord_cursor' =
                                    NextDateFrom(ord_cursor, data[Len(data)].lastChangeDate)
                              /\ UNCHANGED <<ord_pc, ord_ret, ord_fault>>
            ELSE /\ ord_pc' = "done"
                 /\ ord_ret' = NoneBody
                 /\ UNCHANGED <<ord_raw, ord_cursor, ord_fault>>
    /\ UNCHANGED <<ord_feed, ord_start, ord_end>>
    /\ UNCHANGED <<botVars, execVars, rangeVars, fsVars, adVars, reportVars>>

InitOrders ==
    /\ BotIdle
    /\ \E w \in OrderWindows :
         /\ ord_start = w[1]
         /\ ord_end = w[2]
         /\ ord_feed \in Feeds(w[1], w[2])
    /\ ord_cursor = StartDtMoscow(ord_start)
    /\ ord_raw = <<>>
    /\ ord_pages = 0
    /\ ord_fault = FALSE
    /\ ord_pc = "walk"
    /\ ord_ret = NoneBody
    /\ ord_last = NoneBody
    /\ ExecIdle
    /\ RangeIdle
    /\ AdvertIdle
    /\ ReportIdle

NextOrders == OrdersFetchPage

SpecOrders == InitOrders /\ [][NextOrders]_vars

(***************************************************************************)
(* wb_api.get_wb_weekly_report and wb_api.get_wb_paid_storage_report.      *)
(* One action is one request of the sub-window fetch under way; the        *)
(* request that ends the sub-window fetch also runs the rest of the pass   *)
(* of the range loop (the None check, extend, the next current_start, the  *)
(* pacing sleep) and the loop's next test.                                 *)
(***************************************************************************)
CurrentWindow == rg_windows[Len(rg_windows)]

\* `if report_chunk is None`
ChunkFailedIgnored(report_chunk) == FALSE

ChunkFailed(report_chunk) == report_chunk.kind = "None"

ChunkItems(report_chunk) ==
    IF report_chunk.kind = "list" THEN report_chunk.items ELSE <<>>

\* The pacing sleep before the next sub-window.
ChunkPacingAlways(fn) == <<STORAGE_CHUNK_SLEEP>>

ChunkPacing(fn) == IF fn = "storage" THEN <<STORAGE_CHUNK_SLEEP>> ELSE <<>>

RangeAfterChunk(report_chunk, cut, sleeps, job) ==
    /\ rg_results' = Append(rg_results, report_chunk.kind)
    /\ rg_cut' = (rg_cut \/ cut)
    /\ st_job' = job
    /\ IF ChunkFailed(report_chunk)
       THEN /\ rg_pc' = "done"
            /\ rg_ret' = NoneBody
            /\ rg_sleeps' = sleeps
            /\ UNCHANGED <<rg_data, rg_cur, rg_windows, dt_rrdid, dt_all, st_pc, st_wait>>
       ELSE LET current_start == NextStart(CurrentWindow[2])
                all_report_data == rg_data \o ChunkItems(report_chunk)
            IN  /\ rg_data' = all_report_data
                /\ rg_cur' = current_start
                /\ IF current_start <= rg_end
                   THEN /\ rg_sleeps' = sleeps \o ChunkPacing(rg_fn)
                        /\ rg_windows' = Append(rg_windows,
                               <<current_start, ChunkEnd(rg_fn, current_start, rg_end)>>)
                        /\ dt_rrdid' = 0
                        /\ dt_all' = <<>>
                        /\ st_pc' = (IF rg_fn = "storage" THEN "create" ELSE "idle")
                        /\ st_wait' = 0
                        /\ UNCHANGED <<rg_pc, rg_ret>>
                   ELSE /\ rg_pc' = "done"
                        /\ rg_ret' = ListOf(all_report_data)
                        /\ rg_sleeps' = sleeps
                        /\ UNCHANGED <<rg_windows, dt_rrdid, dt_all, st_pc, st_wait>>

\* wb_api._get_single_report_detail_chunk: one pass of `while True`.
DetailFetchPage ==
    /\ rg_fn = "weekly"
    /\ rg_pc = "chunk"
    /\ \E o \in FetchOutcomes, no_rrd_id \in BOOLEAN :
         /\ dt_last' = o
         /\ LET data == DetailEndpoint(rg_profile, CurrentWindow, dt_rrdid)
                filled == o.status # NONE /\ PageOk(o) /\ data # <<>>
            IN  /\ dt_pages' = (IF filled THEN dt_pages + 1 ELSE dt_pages)
                /\ dt_paced' = (IF filled /\ ~no_rrd_id THEN dt_paced + 1 ELSE dt_paced)
         /\ LET data == DetailEndpoint(rg_profile, CurrentWindow, dt_rrdid) IN
            IF o.status = NONE
            THEN RangeAfterChunk(NoneBody, FALSE, rg_sleeps, st_job)
            ELSE IF PageOk(o)
            THEN IF data = <<>>
                 THEN RangeAfterChunk(ListOf(dt_all), FALSE, rg_sleeps, st_job)
                 ELSE IF no_rrd_id
                 THEN RangeAfterChunk(ListOf(dt_all \o data), TRUE, rg_sleeps, st_job)
                 ELSE /\ dt_all' = dt_all \o data
                      /\ dt_rrdid' = RrdId(data[Len(data)])
                      /\ rg_sleeps' = Append(rg_sleeps, DETAIL_PAGE_SLEEP)
                      /\ UNCHANGED <<rg_data, rg_cur, rg_windows, rg_cut, rg_pc, rg_ret,
                                     rg_results, st_pc, st_wait, st_job>>
            ELSE RangeAfterChunk(NoneBody, FALSE, rg_sleeps, st_job)
    /\ UNCHANGED <<rg_fn, rg_profile, rg_start, rg_end>>
    /\ UNCHANGED <<botVars, execVars, ordVars, fsVars, adVars, reportVars>>

\* wb_api._get_single_paid_storage_chunk: the request that creates the job.
StorageCreateTask ==
    /\ rg_fn = "storage"
    /\ rg_pc = "chunk"
    /\ st_pc = "create"
    /\ \E o \in FetchOutcomes :
         IF o.status # 200 \/ o.body.kind # "dict"
         THEN RangeAfterChunk(NoneBody, FALSE, rg_sleeps, NewJob)
         ELSE IF "taskId" \notin DOMAIN o.body
         THEN RangeAfterChunk(NoneBody, FALSE, rg_sleeps, NewJob)
         ELSE /\ st_pc' = "poll"
              /\ st_wait' = 0
              /\ st_job' = NewJob
              /\ UNCHANGED <<rg_data, rg_cur, rg_windows, rg_sleeps, rg_cut, rg_pc,
                             rg_ret, rg_results, dt_rrdid, dt_all>>
    /\ UNCHANGED <<rg_fn, rg_profile, rg_start, rg_end>>
    /\ UNCHANGED <<dt_last, dt_pages, dt_paced>>
    /\ UNCHANGED <<botVars, execVars, ordVars, fsVars, adVars, reportVars>>

\* `elif task_status in ["error", "canceled", "purged"]`
IsFailedJobStatusErrorOnly(task_status) == task_status = "error"

IsFailedJobStatus(task_status) == task_status \in FailedJobStatuses

\* What is kept of a status poll: a terminal status by its name, any other
\* answer as "status".
PollEvent(answer) ==
    IF answer \in {"done"} \cup FailedJobStatuses THEN answer ELSE "status"

\* `await asyncio.sleep(check_interval)`, then the status request.
Polled(job, answer) ==
    [job EXCEPT !.status = PollEvent(answer),
                !.polls = @ + 1,
                !.slept = @ + PAID_STORAGE_STATUS_CHECK_INTERVAL]

Downloaded(job) == [job EXCEPT !.downloads = @ + 1]

\* `while wait_time < max_wait_time`
PollAgainInclusive(wait_time) == wait_time <= PAID_STORAGE_MAX_WAIT_TIME

PollAgain(wait_time) == wait_time < PAID_STORAGE_MAX_WAIT_TIME

\* The loop test after a pass that did not return.
StorageKeepPolling(wait_time, job) ==
    IF PollAgain(wait_time)
    THEN /\ st_wait' = wait_time
         /\ st_job' = job
         /\ UNCHANGED <<rg_data, rg_cur, rg_windows, rg_sleeps, rg_cut, rg_pc, rg_ret,
                        rg_results, dt_rrdid, dt_all, st_pc>>
    ELSE RangeAfterChunk(NoneBody, FALSE, rg_sleeps, job)

\* wb_api._get_single_paid_storage_chunk: one pass of the polling loop (the
\* sleep, the status poll and, for a job that is done, the download).
StoragePoll ==
    /\ rg_fn = "storage"
    /\ rg_pc = "chunk"
    /\ st_pc = "poll"
    /\ \E answer \in PollAnswers, dl \in DownloadAnswers :
         /\ dl = "exception" => st_job.downloads < MaxDownloadFaults
         /\ LET wait_time == st_wait + PAID_STORAGE_STATUS_CHECK_INTERVAL
                job == Polled(st_job, answer)
            IN  IF answer = "done"
                THEN IF dl = "ok"
                     THEN RangeAfterChunk(
                              ListOf(StorageDownload(rg_profile, CurrentWindow)), FALSE,
                              rg_sleeps, Downloaded(job))
                     ELSE IF dl = "non200"
                     THEN RangeAfterChunk(NoneBody, FALSE, rg_sleeps, Downloaded(job))
                     ELSE StorageKeepPolling(wait_time, Downloaded(job))
                ELSE IF IsFailedJobStatus(answer)
                THEN RangeAfterChunk(NoneBody, FALSE, rg_sleeps, job)
                ELSE StorageKeepPolling(wait_time, job)
    /\ UNCHANGED <<rg_fn, rg_profile, rg_start, rg_end>>
    /\ UNCHANGED <<dt_last, dt_pages, dt_paced>>
    /\ UNCHANGED <<botVars, execVars, ordVars, fsVars, adVars, reportVars>>

(***************************************************************************)
(* wb_advert: one whole call of _make_advert_request for the callers, and  *)
(* the advertising pipeline.  One action is one request through the        *)
(* executor and the handling of its result, up to the next request; the    *)
(* last request's action also runs the function to its return.             *)
(***************************************************************************)
RECURSIVE AdvertRun(_, _)
AdvertRun(script, attempt) ==
    LET r == script[attempt + 1]
        st == AdvertStep(attempt, r)
    IN  IF st.done
        THEN [ret |-> st.ret, events |-> StepEvents(r, st)]
        ELSE IF AdvertLoopHasNext(attempt)
        THEN LET rest == AdvertRun(script, attempt + 1)
             IN  [ret |-> rest.ret, events |-> StepEvents(r, st) \o rest.events]
        ELSE [ret |-> AdvertFallThrough, events |-> StepEvents(r, st)]

_make_advert_request(script) == AdvertRun(script, 0)

AdvertOutcomes ==
    {_make_advert_request(script).ret :
        script \in [1..ADVERT_MAX_RETRIES -> AdvertResponses]}

\* The calls as _get_fullstats_data sees them: what the call returned, and
\* the kind of the last answer the network gave it.
\* The fewer of two numbers of seconds, either of which may be NONE.
MinGap(a, b) == IF a = NONE THEN b ELSE IF b = NONE THEN a ELSE Min(a, b)

\* The fewest seconds slept between two successive requests of the events of
\* a call (NONE if it made one request), and the seconds it slept after its
\* last request.
RECURSIVE RetryGap(_)
RetryGap(events) ==
    IF Len(events) < 2 THEN NONE
    ELSE MinGap(IF Head(events).ev = "sleep" THEN Head(events).secs ELSE NONE,
                RetryGap(Tail(events)))

TrailingSleep(events) ==
    IF events[Len(events)].ev = "sleep" THEN events[Len(events)].secs ELSE 0

AdvertCalls ==
    {LET call == _make_advert_request(script)
         reqs == SelectSeq(call.events, LAMBDA e : e.ev = "req")
     IN  [ret |-> call.ret, answer |-> AnswerClass(reqs[Len(reqs)].resp),
          gap |-> RetryGap(call.events), tail |-> TrailingSleep(call.events)] :
        script \in [1..ADVERT_MAX_RETRIES -> AdvertResponses]}

\* `response and response.status == 200`
IsOk(response) == response.kind = "response" /\ response.status = 200

\* The branch of _get_fullstats_data that a returned response takes: the
\* statistics are taken, a 400 'no statistics' is logged as an empty
\* answer, another 400 is logged as an error, anything else is passed over.
FullstatsBranch(response) ==
    IF IsOk(response) THEN "data"
    ELSE IF response.kind = "response" /\ response.status = 400
    THEN IF response.body = TextBody(NoStatsText) THEN "empty" ELSE "error"
    ELSE "skipped"

\* The slice ids[i:i + chunk_size] of a list of IDs.
IdChunkOverlapping(ids, i, chunk_size) ==
    SubSeq(ids, i + 1, Min(i + chunk_size + 1, Len(ids)))

IdChunk(ids, i, chunk_size) == SubSeq(ids, i + 1, Min(i + chunk_size, Len(ids)))

\* _get_relevant_campaign_ids, step 2.3: the filter by endTime and by nmId.
RelevantIdsIgnoringEndTime(campaign_details, account, target_nm_ids, start_date) ==
    SelectSeq(campaign_details,
              LAMBDA c : CampaignNms(account, c) \cap target_nm_ids # {})

RelevantIds(campaign_details, account, target_nm_ids, start_date) ==
    SelectSeq(campaign_details,
              LAMBDA c : /\ ~EndedBeforeStart(account, c, start_date)
                         /\ CampaignNms(account, c) \cap target_nm_ids # {})

\* `if not nm_id or nm_id not in target_nm_ids: continue`
KeepNmAny(nm_id, target_nm_ids) == nm_id # NoNm

KeepNm(nm_id, target_nm_ids) == nm_id # NoNm /\ nm_id \in target_nm_ids

\* Python's float, with its 53 significant bits scaled down to FloatBits:
\* amounts are whole numbers of the smallest unit, and a result is rounded to
\* the nearest number of FloatBits significant bits, ties to even.
FloatBits == 10

RECURSIVE BitLength(_)
BitLength(x) == IF x = 0 THEN 0 ELSE 1 + BitLength(x \div 2)

RoundMagnitude(x) ==
    LET e == BitLength(x) - FloatBits
    IN  IF e <= 0 THEN x
        ELSE LET q == x \div (2 ^ e)
                 r == x % (2 ^ e)
                 half == 2 ^ (e - 1)
             IN  (IF r > half \/ (r = half /\ q % 2 = 1) THEN q + 1 ELSE q) * (2 ^ e)

\* A float keeps its sign apart from its significant bits.
RoundFloat(x) == IF x < 0 THEN 0 - RoundMagnitude(0 - x) ELSE RoundMagnitude(x)

\* a + b of two floats
FloatAdd(a, b) == RoundFloat(a + b)

\* a - b and a * b of two floats
FloatSub(a, b) == RoundFloat(a - b)
FloatMul(a, b) == RoundFloat(a * b)

\* get_aggregated_ad_costs, the parsing loops, innermost first. Python has
\* updated ad_costs_agg before the next iteration starts: Evaluated makes the
\* evaluation of the dict precede the rest of the loop.
Evaluated(v) == v = v

\* `for nm_stat in app_stat.get("nms", [])`: `ad_costs_agg[key] += cost`
RECURSIVE AddNms(_, _, _, _)
AddNms(nms, date_str, ad_costs_agg, target_nm_ids) ==
    IF nms = <<>> THEN ad_costs_agg
    ELSE LET nm_id == Head(nms).nmId
             cost == Head(nms).sum
             key == <<date_str, nm_id>>
         IN  IF ~KeepNm(nm_id, target_nm_ids)
             THEN AddNms(Tail(nms), date_str, ad_costs_agg, target_nm_ids)
             ELSE IF key \in DOMAIN ad_costs_agg
             THEN AddNms(Tail(nms), date_str,
                         [ad_costs_agg EXCEPT ![key] = FloatAdd(@, cost)],
                         target_nm_ids)
             ELSE AddNms(Tail(nms), date_str,
                         ad_costs_agg @@ (key :> FloatAdd(0, cost)), target_nm_ids)

\* `for app_stat in day_stat.get("apps", [])`
RECURSIVE AddApps(_, _, _, _)
AddApps(apps, date_str, ad_costs_agg, target_nm_ids) ==
    IF apps = <<>> THEN ad_costs_agg
    ELSE AddApps(Tail(apps), date_str,
                 AddNms(Head(apps), date_str, ad_costs_agg, target_nm_ids),
                 target_nm_ids)

\* `for day_stat in campaign_stat.get("days", [])`
RECURSIVE AddDays(_, _, _, _)
AddDays(days, apps, ad_costs_agg, target_nm_ids) ==
    IF days = <<>> THEN ad_costs_agg
    ELSE LET after_day == AddApps(apps, Head(days), ad_costs_agg, target_nm_ids)
         IN  IF Evaluated(after_day)
             THEN AddDays(Tail(days), apps, after_day, target_nm_ids)
             ELSE after_day

\* `for campaign_stat in fullstats_data`
RECURSIVE AggregateCosts(_, _, _, _)
AggregateCosts(fullstats_data, account, ad_costs_agg, target_nm_ids) ==
    IF fullstats_data = <<>> THEN ad_costs_agg
    ELSE LET after_campaign ==
                 AddDays(Head(fullstats_data).days,
                         StatApps(account, Head(fullstats_data).advertId),
                         ad_costs_agg, target_nm_ids)
         IN  IF Evaluated(after_campaign)
             THEN AggregateCosts(Tail(fullstats_data), account, after_campaign,
                                 target_nm_ids)
             ELSE after_campaign

\* `if not fullstats_data: return {}` and the return of the aggregate
AdCostsOf(fullstats_data, account, target_nm_ids) ==
    IF fullstats_data = <<>> THEN EmptyDict
    ELSE DictOf(AggregateCosts(fullstats_data, account, <<>>, target_nm_ids))

\* The rest of get_aggregated_ad_costs once _get_fullstats_data has handled a
\* request: result is what _get_fullstats_data came back with ("pending"
\* while it is still running).
Pending == [kind |-> "pending"]

AdAfterFullstats(result, gave_up) ==
    IF ad_pc # "fullstats" THEN UNCHANGED adVars
    ELSE /\ ad_failed' = (ad_failed \/ gave_up)
         /\ ad_pc' = (IF result.kind = "pending" THEN ad_pc ELSE "done")
         /\ ad_ret' = (CASE result.kind = "pending" -> ad_ret
                         [] result.kind = "raised" -> Raised
                         [] OTHER -> AdCostsOf(result.items, ad_account, ad_targets))
         /\ UNCHANGED <<ad_account, ad_profile, ad_targets, ad_start, ad_end,
                        ad_active, ad_i, ad_details, ad_sleeps, ad_batches>>

\* wb_advert._get_fullstats_data: one request of the `for i` loop.
FullstatsRequest ==
    /\ rg_fn = "fullstats"
    /\ rg_pc = "chunk"
    /\ \E call \in AdvertCalls :
         LET response == call.ret
             id_chunk == IdChunk(fs_ids, fs_i, FULLSTATS_ID_CHUNK_SIZE)
             stats_data == IF IsOk(response)
                           THEN FullstatsEndpoint(rg_profile, id_chunk, CurrentWindow)
                           ELSE <<>>
             all_stats_raw == rg_data \o stats_data
             last_id_chunk == fs_i + FULLSTATS_ID_CHUNK_SIZE >= Len(fs_ids)
             is_last_chunk == last_id_chunk /\ CurrentWindow[2] >= rg_end
             sleeps == rg_sleeps \o (IF is_last_chunk THEN <<>>
                                     ELSE <<FULLSTATS_REQUEST_DELAY>>)
             current_start_date == rg_cur + FULLSTATS_WINDOW_STEP
         IN  IF response.kind = "raised"
             THEN /\ rg_pc' = "done"
                  /\ rg_ret' = Raised
                  /\ fs_gap' = MinGap(fs_gap, call.gap)
                  /\ UNCHANGED <<rg_data, rg_sleeps, rg_cut, rg_results, rg_cur,
                                 rg_windows, fs_i>>
                  /\ AdAfterFullstats(Raised, FALSE)
             ELSE /\ rg_data' = all_stats_raw
                  /\ fs_gap' = MinGap(MinGap(fs_gap, call.gap),
                                      IF is_last_chunk THEN NONE
                                      ELSE call.tail + FULLSTATS_REQUEST_DELAY)
                  /\ rg_sleeps' = sleeps
                  /\ rg_cut' = (rg_cut \/ ~IsOk(response))
                  /\ rg_results' = Append(rg_results,
                         [answer |-> call.answer, branch |-> FullstatsBranch(response),
                          ids |-> id_chunk, window |-> CurrentWindow])
                  /\ IF ~last_id_chunk
                     THEN /\ fs_i' = fs_i + FULLSTATS_ID_CHUNK_SIZE
                          /\ UNCHANGED <<rg_cur, rg_windows, rg_pc, rg_ret>>
                          /\ AdAfterFullstats(Pending, response.kind = "None")
                     ELSE IF current_start_date <= rg_end
                     THEN /\ fs_i' = 0
                          /\ rg_cur' = current_start_date
                          /\ rg_windows' = Append(rg_windows,
                                 <<current_start_date,
                                   ChunkEnd(rg_fn, current_start_date, rg_end)>>)
                          /\ UNCHANGED <<rg_pc, rg_ret>>
                          /\ AdAfterFullstats(Pending, response.kind = "None")
                     ELSE /\ rg_pc' = "done"
                          /\ rg_ret' = ListOf(all_stats_raw)
                          /\ rg_cur' = current_start_date
                          /\ UNCHANGED <<rg_windows, fs_i>>
                          /\ AdAfterFullstats(ListOf(all_stats_raw),
                                              response.kind = "None")
    /\ UNCHANGED <<rg_fn, rg_profile, rg_start, rg_end, fs_ids, dt_rrdid, dt_all,
                   st_pc, st_wait, st_job>>
    /\ UNCHANGED <<dt_last, dt_pages, dt_paced>>
    /\ UNCHANGED <<botVars, execVars, ordVars, reportVars>>

\* The start of _get_fullstats_data, called by get_aggregated_ad_costs.
StartFullstats(campaign_ids) ==
    /\ rg_fn' = "fullstats"
    /\ rg_profile' = ad_profile
    /\ rg_start' = ad_start
    /\ rg_end' = ad_end
    /\ rg_cur' = ad_start
    /\ rg_windows' = <<<<ad_start, ChunkEnd("fullstats", ad_start, ad_end)>>>>
    /\ rg_data' = <<>>
    /\ rg_sleeps' = <<>>
    /\ rg_cut' = FALSE
    /\ rg_pc' = "chunk"
    /\ rg_ret' = NoneBody
    /\ rg_results' = <<>>
    /\ fs_ids' = campaign_ids
    /\ fs_i' = 0
    /\ fs_gap' = NONE
    /\ UNCHANGED <<dt_rrdid, dt_all, dt_last, dt_pages, dt_paced, st_pc, st_wait, st_job>>

\* `return` of get_aggregated_ad_costs before _get_fullstats_data is called.
AdReturn(value, gave_up, sleeps) ==
    /\ ad_pc' = "done"
    /\ ad_ret' = value
    /\ ad_failed' = (ad_failed \/ gave_up)
    /\ ad_sleeps' = sleeps
    /\ UNCHANGED <<rangeVars, fsVars>>

\* get_aggregated_ad_costs up to the handling of the promotion/count request
\* of _get_relevant_campaign_ids.
AdCountRequest ==
    /\ ad_pc = "count"
    /\ IF ad_targets = {}
       THEN /\ AdReturn(EmptyDict, FALSE, ad_sleeps)
            /\ UNCHANGED <<ad_active, ad_i, ad_details>>
       ELSE \E response_count \in AdvertOutcomes :
            IF response_count.kind = "raised"
            THEN /\ AdReturn(Raised, FALSE, ad_sleeps)
                 /\ UNCHANGED <<ad_active, ad_i, ad_details>>
            ELSE IF ~IsOk(response_count)
            THEN /\ AdReturn(EmptyDict, response_count.kind = "None", ad_sleeps)
                 /\ UNCHANGED <<ad_active, ad_i, ad_details>>
            ELSE LET all_active_ids_list == ActiveIds(ad_account) IN
                 IF all_active_ids_list = <<>>
                 THEN /\ AdReturn(EmptyDict, FALSE, ad_sleeps)
                      /\ UNCHANGED <<ad_active, ad_i, ad_details>>
                 ELSE /\ ad_active' = all_active_ids_list
                      /\ ad_i' = 0
                      /\ ad_details' = <<>>
                      /\ ad_pc' = "details"
                      /\ UNCHANGED <<ad_ret, ad_failed, ad_sleeps, rangeVars, fsVars>>
    /\ UNCHANGED <<ad_account, ad_profile, ad_targets, ad_start, ad_end, ad_batches>>
    /\ UNCHANGED <<botVars, execVars, ordVars, reportVars>>

\* _get_relevant_campaign_ids: one request of the metadata loop; the last one
\* goes on to the filter and to the start of _get_fullstats_data.
AdDetailsRequest ==
    /\ ad_pc = "details"
    /\ \E response_details \in AdvertOutcomes :
         LET id_chunk == IdChunk(ad_active, ad_i, DETAILS_CHUNK_SIZE)
             campaign_details == IF IsOk(response_details)
                                 THEN ad_details \o id_chunk
                                 ELSE ad_details
             gave_up == response_details.kind = "None"
             sleeps == Append(ad_sleeps, REQUEST_DELAY)
             campaign_ids == RelevantIds(campaign_details, ad_account, ad_targets, ad_start)
         IN  IF response_details.kind = "raised"
             THEN /\ AdReturn(Raised, FALSE, ad_sleeps)
                  /\ UNCHANGED <<ad_active, ad_i, ad_details>>
             ELSE IF ad_i + DETAILS_CHUNK_SIZE < Len(ad_active)
             THEN /\ ad_i' = ad_i + DETAILS_CHUNK_SIZE
                  /\ ad_details' = campaign_details
                  /\ ad_failed' = (ad_failed \/ gave_up)
                  /\ ad_sleeps' = sleeps
                  /\ UNCHANGED <<ad_active, ad_pc, ad_ret, rangeVars, fsVars>>
             ELSE IF campaign_ids = <<>>
             THEN /\ AdReturn(EmptyDict, gave_up, sleeps)
                  /\ ad_details' = campaign_details
                  /\ UNCHANGED <<ad_active, ad_i>>
             ELSE /\ ad_details' = campaign_details
                  /\ ad_failed' = (ad_failed \/ gave_up)
                  /\ ad_sleeps' = sleeps
                  /\ ad_pc' = "fullstats"
                  /\ StartFullstats(campaign_ids)
                  /\ UNCHANGED <<ad_active, ad_i, ad_ret>>
    /\ ad_batches' = Append(ad_batches,
                            IdChunk(ad_active, ad_i, DETAILS_CHUNK_SIZE))
    /\ UNCHANGED <<ad_account, ad_profile, ad_targets, ad_start, ad_end>>
    /\ UNCHANGED <<botVars, execVars, ordVars, reportVars>>

\* The campaign lists _get_fullstats_data is called with.
IdLists ==
    {[c \in 1..n |-> c] : n \in {n \in CampaignCounts : n % FULLSTATS_ID_CHUNK_SIZE = 1}}

InitRange ==
    /\ BotIdle
    /\ rg_fn \in {"weekly", "storage", "fullstats"}
    /\ rg_profile \in Profiles
    /\ \E r \in (IF rg_fn = "fullstats" THEN AdRanges ELSE Ranges) :
         /\ rg_start = r[1]
         /\ rg_end = r[2]
    /\ fs_ids \in (IF rg_fn = "fullstats" THEN IdLists ELSE {<<>>})
    /\ fs_i = 0
    /\ fs_gap = NONE
    /\ rg_cur = rg_start
    /\ rg_windows = <<<<rg_start, ChunkEnd(rg_fn, rg_start, rg_end)>>>>
    /\ rg_data = <<>>
    /\ rg_sleeps = <<>>
    /\ rg_cut = FALSE
    /\ rg_pc = "chunk"
    /\ rg_ret = NoneBody
    /\ rg_results = <<>>
    /\ dt_rrdid = 0
    /\ dt_all = <<>>
    /\ dt_last = NoneBody
    /\ dt_pages = 0
    /\ dt_paced = 0
    /\ st_pc = (IF rg_fn = "storage" THEN "create" ELSE "idle")
    /\ st_wait = 0
    /\ st_job = NoJob
    /\ ExecIdle
    /\ OrdersIdle
    /\ AdvertIdle
    /\ ReportIdle

NextRange ==
    \/ DetailFetchPage
    \/ StorageCreateTask
    \/ StoragePoll
    \/ FullstatsRequest

SpecRange == InitRange /\ [][NextRange]_vars

\* The windows get_aggregated_ad_costs is run on.
AdCallRanges ==
    {r \in AdRanges : r[2] - r[1] \in {0, FULLSTATS_CHUNK_DELTA, FULLSTATS_WINDOW_STEP}}

InitAdvert ==
    /\ BotIdle
    /\ ad_account \in Accounts
    /\ ad_profile \in Profiles
    /\ ad_targets \in {{}, {TargetNm}}
    /\ \E r \in AdCallRanges :
         /\ ad_start = r[1]
         /\ ad_end = r[2]
    /\ ad_active = <<>>
    /\ ad_i = 0
    /\ ad_details = <<>>
    /\ ad_sleeps = <<>>
    /\ ad_batches = <<>>
    /\ ad_failed = FALSE
    /\ ad_pc = "count"
    /\ ad_ret = NoneBody
    /\ ExecIdle
    /\ OrdersIdle
    /\ RangeIdle
    /\ ReportIdle

NextAdvert ==
    \/ AdCountRequest
    \/ AdDetailsRequest
    \/ FullstatsRequest

SpecAdvert == InitAdvert /\ [][NextAdvert]_vars

(***************************************************************************)
(* analytic_report.fill_pnl_report.  One action is the code up to and      *)
(* including one awaited stage (opening the spreadsheet, the gathered      *)
(* fetches, the advertising fetch with the None check, each sheet), with   *)
(* the except block and the return when the stage ends the run.  The       *)
(* fetchers are taken by what they return.                                 *)
(***************************************************************************)
ReportSheets == {"pnl", "analytics", "unit"}
Outcomes == {"ok", "raises"}
Unset == [kind |-> "unset"]
Url == [kind |-> "url"]

\* A str value, letter by letter. The Russian letters are written in Latin
\* transliteration, one string per letter, capitals for capitals.
Str(chars) == [kind |-> "str", chars |-> chars]
SaleWord == <<"p", "r", "o", "d", "a", "zh", "a">>
ReturnWord == <<"v", "o", "z", "v", "r", "a", "t">>
\* The document type names "Продажа", "Возврат по гарантии", "ВОЗВРАТ",
\* "Логистика" and "Продажа/возврат".
DocTypeNames ==
    [sale |-> Str(<<"P", "r", "o", "d", "a", "zh", "a">>),
     warranty |-> Str(<<"V", "o", "z", "v", "r", "a", "t", " ", "p", "o", " ",
                        "g", "a", "r", "a", "n", "t", "i", "i">>),
     caps |-> Str(<<"V", "O", "Z", "V", "R", "A", "T">>),
     logistics |-> Str(<<"L", "o", "g", "i", "s", "t", "i", "k", "a">>),
     both |-> Str(<<"P", "r", "o", "d", "a", "zh", "a", "/", "v", "o", "z", "v",
                    "r", "a", "t">>)]

\* An order of /supplier/orders. An order without 'nmId' has nmId NoNm.
Order(nmId, date, totalPrice, discountPercent) ==
    [nmId |-> nmId, date |-> date, totalPrice |-> totalPrice,
     discountPercent |-> discountPercent]

\* What get_wb_orders, get_wb_weekly_report and get_wb_paid_storage_report
\* return: None, no records, or records.
OrdersReturns ==
    {NoneBody, ListOf(<<>>), ListOf(<<Order(TargetNm, 0, 1000, 10)>>),
     ListOf(<<Order(TargetNm, 0, 500, 0), Order(ForeignNm, 1, 200, 50),
              Order(NoNm, 0, 100, 0)>>)}

\* A row of the detail report: its day (NONE without 'rr_dt'), its article
\* (NoNm without 'nm_id'), its document type name (None or a str), and its
\* amounts; the fields a row does not carry are read as 0 by row.get(.., 0).
DetailRow(rr_dt, nm_id, doc_type_name, quantity, retail_amount, ppvz_for_pay) ==
    [rr_dt |-> rr_dt, nm_id |-> nm_id, doc_type_name |-> doc_type_name,
     quantity |-> quantity, retail_amount |-> retail_amount,
     ppvz_for_pay |-> ppvz_for_pay, penalty |-> 0, delivery_rub |-> 0,
     rebill_logistic_cost |-> 0, storage_fee |-> 0, acceptance |-> 0,
     deduction |-> 0, additional_payment |-> 0]

PenaltyRow(ppvz_for_pay, penalty) ==
    [DetailRow(0, TargetNm, DocTypeNames.logistics, 0, 0, ppvz_for_pay)
        EXCEPT !.penalty = penalty]

RowsReturns ==
    {NoneBody, ListOf(<<>>),
     ListOf(<<PenaltyRow(0, 1), PenaltyRow(0, 1), PenaltyRow(0, 2 ^ FloatBits)>>),
     ListOf(<<PenaltyRow(0, 2 ^ FloatBits), PenaltyRow(0, 1), PenaltyRow(0, 1)>>),
     ListOf(<<PenaltyRow(2 ^ FloatBits, 0), PenaltyRow(1, 0), PenaltyRow(1, 2)>>),
     ListOf(<<DetailRow(0, TargetNm, DocTypeNames.sale, 1, 900, 800)>>),
     ListOf(<<[DetailRow(0, TargetNm, DocTypeNames.sale, 2, 300, 500)
                  EXCEPT !.delivery_rub = 40],
              [DetailRow(1, TargetNm, DocTypeNames.warranty, 1, 300, 0)
                  EXCEPT !.delivery_rub = 30, !.rebill_logistic_cost = 30],
              DetailRow(1, ForeignNm, DocTypeNames.caps, 1, 200, 0),
              [DetailRow(0, ForeignNm, DocTypeNames.logistics, 0, 0, 0)
                  EXCEPT !.delivery_rub = 50, !.storage_fee = 5, !.acceptance = 3,
                         !.deduction = 7, !.additional_payment = 2, !.penalty = 4]>>),
     ListOf(<<DetailRow(0, TargetNm, NoneBody, 1, 100, 90),
              DetailRow(0, TargetNm, DocTypeNames.both, 1, 400, 350),
              DetailRow(1, NoNm, DocTypeNames.sale, 1, 50, 40),
              DetailRow(NONE, TargetNm, DocTypeNames.sale, 1, 60, 50)>>)}
StorageReturns ==
    {NoneBody, ListOf(<<>>),
     ListOf(<<[date |-> 0, nmId |-> TargetNm, warehousePrice |-> 4],
              [date |-> 0, nmId |-> TargetNm, warehousePrice |-> 3],
              [date |-> 1, nmId |-> TargetNm, warehousePrice |-> 2],
              [date |-> 0, nmId |-> NoNm, warehousePrice |-> 1]>>)}

\* str.lower() on the letters a document type name is written with
LowerCase ==
    [ch \in {"P", "R", "O", "D", "A", "ZH", "V", "Z", "T", "L"} |->
        CASE ch = "P" -> "p" [] ch = "R" -> "r" [] ch = "O" -> "o"
          [] ch = "D" -> "d" [] ch = "A" -> "a" [] ch = "ZH" -> "zh"
          [] ch = "V" -> "v" [] ch = "Z" -> "z" [] ch = "T" -> "t"
          [] ch = "L" -> "l"]
Lower(chars) ==
    [i \in DOMAIN chars |->
        IF chars[i] \in DOMAIN LowerCase THEN LowerCase[chars[i]] ELSE chars[i]]

\* `word in chars` of two strs
Contains(word, chars) ==
    \E i \in 1..(Len(chars) - Len(word) + 1) :
        SubSeq(chars, i, i + Len(word) - 1) = word

\* `doc_type = (row.get("doc_type_name") or "").lower()`
DocTypeAsWritten(row) ==
    IF row.doc_type_name.kind = "None" THEN <<>> ELSE row.doc_type_name.chars

DocType(row) ==
    Lower(IF row.doc_type_name.kind = "None" THEN <<>> ELSE row.doc_type_name.chars)

OrderAmountUndiscounted(order) == RoundFloat(order.totalPrice)

\* `totalPrice * (1 - discountPercent / 100)`; the prices and discounts of
\* the model give whole amounts.
OrderAmount(order) ==
    RoundFloat((order.totalPrice * (100 - order.discountPercent)) \div 100)

\* `additional_payment + cashback_discount + cashback_amount +
\* cashback_commission_change`; the rows carry no cashback fields.
Adjustments(row) == FloatAdd(FloatAdd(FloatAdd(row.additional_payment, 0), 0), 0)

\* The totals of one day of the P&L sheet and of one article of the
\* analytics sheet before any record is added.
ZeroTotals ==
    [orders_count |-> 0, orders |-> 0, sales_quantity |-> 0,
     sales_before_spp |-> 0, returns |-> 0, advertising |-> 0,
     forward_logistics |-> 0, reverse_logistics |-> 0, storage |-> 0,
     acceptance |-> 0, penalties |-> 0, adjustments |-> 0, to_pay |-> 0,
     total_to_pay |-> 0]

\* fill_pnl_weekly_sheet and fill_product_analytics_weekly_sheet, the body of
\* `for row in daily_data` and of `for row in weekly_data`.
AddOrder(t, order) ==
    [t EXCEPT !.orders_count = @ + 1,
              !.orders = FloatAdd(@, OrderAmount(order))]

AddRow(t, row) ==
    LET doc_type == DocType(row)
        quantity == row.quantity
        is_sale == Contains(SaleWord, doc_type)
        is_return == Contains(ReturnWord, doc_type)
        returns == IF is_return THEN FloatMul(row.retail_amount, quantity) ELSE 0
        adjustments == Adjustments(row)
    IN  [t EXCEPT
            !.sales_quantity = IF is_sale THEN @ + quantity ELSE @,
            !.sales_before_spp =
                IF is_sale THEN FloatAdd(@, FloatMul(row.retail_amount, quantity))
                ELSE @,
            !.returns = IF is_return THEN FloatAdd(@, returns) ELSE @,
            !.advertising = FloatAdd(@, row.deduction),
            !.forward_logistics =
                FloatAdd(@, FloatSub(row.delivery_rub, row.rebill_logistic_cost)),
            !.reverse_logistics = FloatAdd(@, row.rebill_logistic_cost),
            !.storage = FloatAdd(@, row.storage_fee),
            !.acceptance = FloatAdd(@, row.acceptance),
            !.penalties = FloatAdd(@, row.penalty),
            !.to_pay = FloatAdd(@, row.ppvz_for_pay),
            !.adjustments = FloatAdd(@, adjustments),
            !.total_to_pay =
                FloatAdd(@,
                    FloatSub(FloatSub(FloatSub(FloatSub(FloatSub(FloatSub(FloatSub(
                        row.ppvz_for_pay, adjustments), row.penalty),
                        row.delivery_rub), row.storage_fee), row.acceptance),
                        row.deduction), returns))]

\* fill_unit_economics_sheet, step 1: `defaultdict(float)` of an article and
\* the bodies of `for order in orders_data` and `for row in
\* daily_report_data`.
ZeroProduct ==
    [orders_rub |-> 0, orders_pcs |-> 0, sales_rub |-> 0, sales_pcs |-> 0,
     returns_rub |-> 0, returns_pcs |-> 0, logistics_forward_rub |-> 0,
     logistics_reverse_rub |-> 0, acceptance_rub |-> 0, storage_rub |-> 0,
     penalty_rub |-> 0, to_pay_rub |-> 0, adjustments_rub |-> 0]

AddUnitOrder(p, order) ==
    [p EXCEPT !.orders_rub = FloatAdd(@, OrderAmount(order)),
              !.orders_pcs = FloatAdd(@, 1)]

AddUnitRow(p, row) ==
    LET doc_type == DocType(row)
        is_sale == Contains(SaleWord, doc_type)
        is_return == ~is_sale /\ Contains(ReturnWord, doc_type)
    IN  [p EXCEPT
            !.sales_rub = IF is_sale THEN FloatAdd(@, row.retail_amount) ELSE @,
            !.sales_pcs = IF is_sale THEN FloatAdd(@, row.quantity) ELSE @,
            !.returns_rub = IF is_return THEN FloatAdd(@, row.retail_amount) ELSE @,
            !.returns_pcs = IF is_return THEN FloatAdd(@, row.quantity) ELSE @,
            !.logistics_forward_rub =
                FloatAdd(@, FloatSub(row.delivery_rub, row.rebill_logistic_cost)),
            !.logistics_reverse_rub = FloatAdd(@, row.rebill_logistic_cost),
            !.acceptance_rub = FloatAdd(@, row.acceptance),
            !.storage_rub = FloatAdd(@, row.storage_fee),
            !.penalty_rub = FloatAdd(@, row.penalty),
            !.to_pay_rub = FloatAdd(@, row.ppvz_for_pay),
            !.adjustments_rub = FloatAdd(@, Adjustments(row))]

\* The key a sheet accumulates a record by: the day for the P&L sheet, the
\* article for the other two; `if not date_str: continue` and
\* `if not nm_id: continue` leave a record without its key out.
RecordKey(sheet, kind, rec) ==
    IF sheet = "pnl"
    THEN (IF kind = "order" THEN rec.date ELSE rec.rr_dt)
    ELSE (IF kind = "order" THEN rec.nmId ELSE rec.nm_id)

HasNoKey(sheet, key) == IF sheet = "pnl" THEN key = NONE ELSE key = NoNm

\* The loops of a sheet's aggregation over the records in their order.
RECURSIVE Accumulate(_, _, _, _)
Accumulate(sheet, kind, records, totals) ==
    IF records = <<>> THEN totals
    ELSE LET rec == Head(records)
             key == RecordKey(sheet, kind, rec)
             was == IF key \in DOMAIN totals THEN totals[key]
                    ELSE IF sheet = "unit" THEN ZeroProduct ELSE ZeroTotals
             now == CASE sheet = "unit" /\ kind = "order" -> AddUnitOrder(was, rec)
                      [] sheet = "unit" /\ kind = "row" -> AddUnitRow(was, rec)
                      [] sheet # "unit" /\ kind = "order" -> AddOrder(was, rec)
                      [] sheet # "unit" /\ kind = "row" -> AddRow(was, rec)
         IN  IF HasNoKey(sheet, key)
             THEN Accumulate(sheet, kind, Tail(records), totals)
             ELSE Accumulate(sheet, kind, Tail(records),
                             [k \in DOMAIN totals \cup {key} |->
                                 IF k = key THEN now ELSE totals[k]])

SheetTotals(sheet, report_data, orders_data) ==
    Accumulate(sheet, "row", report_data.items,
               Accumulate(sheet, "order", orders_data.items, <<>>))

\* What get_aggregated_ad_costs returns or raises.
AdCostsReturns(target_nm_ids) ==
    IF target_nm_ids = {} THEN {EmptyDict}
    ELSE {EmptyDict, DictOf([key \in {<<0, TargetNm>>, <<1, TargetNm>>} |-> 1 + key[1]]),
          Raised}

\* `{order['nmId'] for order in (orders_data or []) if 'nmId' in order}`
TargetNmIds(orders_data) ==
    IF orders_data.kind = "list"
    THEN {orders_data.items[k].nmId : k \in 1..Len(orders_data.items)} \ {NoNm}
    ELSE {}

RECURSIVE StorageCostsLastWins(_, _)
StorageCostsLastWins(rows, storage_costs) ==
    IF rows = <<>> THEN storage_costs
    ELSE LET key == <<Head(rows).date, Head(rows).nmId>>
             cost == Head(rows).warehousePrice
         IN  IF Head(rows).nmId = NoNm
             THEN StorageCostsLastWins(Tail(rows), storage_costs)
             ELSE StorageCostsLastWins(Tail(rows),
                      [k \in DOMAIN storage_costs \cup {key} |->
                          IF k = key THEN cost ELSE storage_costs[k]])

\* fill_pnl_report, step 4: `storage_costs[key] += cost` for the rows that
\* have a date and an nmId.
RECURSIVE StorageCosts(_, _)
StorageCosts(rows, storage_costs) ==
    IF rows = <<>> THEN storage_costs
    ELSE LET key == <<Head(rows).date, Head(rows).nmId>>
             cost == Head(rows).warehousePrice
         IN  IF Head(rows).nmId = NoNm
             THEN StorageCosts(Tail(rows), storage_costs)
             ELSE IF key \in DOMAIN storage_costs
             THEN StorageCosts(Tail(rows),
                               [storage_costs EXCEPT ![key] = FloatAdd(@, cost)])
             ELSE StorageCosts(Tail(rows), storage_costs @@ (key :> FloatAdd(0, cost)))

\* `if storage_data:`, false for None and for an empty list
StorageCostsOf(storage_data) ==
    IF storage_data.kind = "list" /\ storage_data.items # <<>>
    THEN DictOf(StorageCosts(storage_data.items, <<>>))
    ELSE EmptyDict

\* fill_unit_economics_sheet, step 2: the costs of a (date, nmId) dict summed
\* by nmId, and `.get(key, 0.0)` of the sums.
RECURSIVE SumCosts(_, _)
SumCosts(items, keys) ==
    IF keys = {} THEN 0
    ELSE LET key == CHOOSE k \in keys : TRUE
         IN  items[key] + SumCosts(items, keys \ {key})

CostsByNm(costs, nm_id) ==
    SumCosts(costs.items, {key \in DOMAIN costs.items : key[2] = nm_id})

\* a / b of two numbers, as the fraction in lowest terms
RECURSIVE Gcd(_, _)
Gcd(a, b) == IF b = 0 THEN a ELSE Gcd(b, a % b)
Quotient(a, b) == [num |-> a \div Gcd(a, b), den |-> b \div Gcd(a, b)]

RatioInverted(a, b) == IF a > 0 THEN Quotient(b, a) ELSE Quotient(0, 1)

\* `(a / b) if b > 0 else 0`
Ratio(a, b) == IF b > 0 THEN Quotient(a, b) ELSE Quotient(0, 1)

\* fill_unit_economics_sheet, steps 1 and 3: one row per nmId of the orders
\* and of the rows of the detail report, with its totals, its advertising and
\* storage cost and its ratios.
UnitRows(daily_report_data, orders_data, ad_costs, storage_costs) ==
    LET products == SheetTotals("unit", daily_report_data, orders_data)
    IN  [key \in DOMAIN products |->
            LET p == products[key]
                advertising_cost == CostsByNm(ad_costs, key)
            IN  [p |-> p,
                 advertising_cost |-> advertising_cost,
                 storage_cost |-> CostsByNm(storage_costs, key),
                 drr_percent |-> Ratio(advertising_cost, p.sales_rub),
                 buyout_percent |-> Ratio(p.sales_pcs, p.orders_pcs)]]

\* The awaited fetches of asyncio.gather, and when gather returns.
Fetches == {"report", "orders", "storage"}

GatherDoneOrdersOnly(finished) == "orders" \in finished

GatherDone(finished) == finished = Fetches

\* `if report_data is None or orders_data is None`
FetchFailedOrdersOnly(report_data, orders_data) == orders_data.kind = "None"

FetchFailedOrStorage(report_data, orders_data) ==
    report_data.kind = "None" \/ orders_data.kind = "None" \/ rp_storage.kind = "None"

FetchFailed(report_data, orders_data) ==
    report_data.kind = "None" \/ orders_data.kind = "None"

\* The stored key of a shop when a report is asked for: none was saved, or
\* the one saved after main.validate_wb_api_key accepted it, which WB still
\* accepts or by now rejects with 401 (revoked or expired).
KeyStates == {"absent", "valid", "invalid"}

KeyMissingNever(api_key) == FALSE

\* `if not api_key:`
KeyMissing(api_key) == api_key = "absent"

\* The except block: the spreadsheet, if there is one, is deleted; None is
\* returned.
ReportExcept(spreadsheet, deletion) ==
    /\ rp_pc' = "done"
    /\ rp_ret' = NoneBody
    /\ IF spreadsheet = "created"
       THEN /\ rp_dels' = rp_dels + 1
            /\ rp_sheet' = (IF deletion = "ok" THEN "deleted" ELSE "delete_failed")
       ELSE /\ rp_dels' = rp_dels
            /\ rp_sheet' = spreadsheet

ReportOpen ==
    /\ rp_pc = "open"
    /\ \E gc \in {"client", "none"},
          create \in Outcomes, share \in Outcomes, deletion \in Outcomes :
         IF gc = "none" \/ KeyMissing(rp_key)
         THEN /\ rp_pc' = "done"
              /\ rp_ret' = NoneBody
              /\ UNCHANGED <<rp_sheet, rp_dels>>
         ELSE IF create = "raises"
         THEN ReportExcept("none", deletion)
         ELSE IF share = "raises"
         THEN ReportExcept("created", deletion)
         ELSE /\ rp_pc' = "gather"
              /\ rp_sheet' = "created"
              /\ UNCHANGED <<rp_ret, rp_dels>>
    /\ UNCHANGED <<rp_tabs, rp_filled, rp_report, rp_orders, rp_storage, rp_cut,
                   rp_finished, rp_storage_costs, rp_unit, rp_sums, rp_targets,
                   rp_ads, rp_ad_reqs>>
    /\ UNCHANGED rp_key
    /\ UNCHANGED <<botVars, execVars, ordVars, rangeVars, fsVars, adVars>>

\* One of the fetches awaited by asyncio.gather finishes; with the last one
\* gather returns and target_nm_ids is built from its result.
ReportFetchDone(task) ==
    /\ task \notin Range(rp_finished)
    /\ \E data \in (CASE task = "orders" -> OrdersReturns
                      [] task = "report" -> RowsReturns
                      [] OTHER -> StorageReturns),
          cut \in BOOLEAN :
         LET report_data == IF task = "report" THEN data ELSE rp_report
             orders_data == IF task = "orders" THEN data ELSE rp_orders
             storage_data == IF task = "storage" THEN data ELSE rp_storage
             finished == Append(rp_finished, task)
         IN  /\ rp_key = "invalid" => data.kind = "None"
             /\ cut => \/ task = "orders" /\ data.kind = "list"
                       \/ task = "report" /\ data.kind = "list" /\ data.items # <<>>
             /\ rp_report' = report_data
             /\ rp_orders' = orders_data
             /\ rp_storage' = storage_data
             /\ rp_cut' = (IF cut THEN rp_cut \cup {task} ELSE rp_cut)
             /\ rp_finished' = finished
             /\ IF GatherDone(Range(finished))
                THEN /\ rp_targets' = TargetNmIds(orders_data)
                     /\ rp_pc' = "ads"
                ELSE UNCHANGED <<rp_targets, rp_pc>>
    /\ UNCHANGED <<rp_sheet, rp_tabs, rp_filled, rp_storage_costs, rp_unit, rp_sums,
                   rp_ads, rp_ad_reqs, rp_dels, rp_ret>>
    /\ UNCHANGED rp_key
    /\ UNCHANGED <<botVars, execVars, ordVars, rangeVars, fsVars, adVars>>

\* `await asyncio.gather(report_data_task, orders_task, storage_report_task)`
ReportGather ==
    /\ rp_pc = "gather"
    /\ \E task \in Fetches : ReportFetchDone(task)

\* `await get_aggregated_ad_costs(...)`, the storage aggregation and the
\* check of the fetched data.
ReportAds ==
    /\ rp_pc = "ads"
    /\ \E ad_costs \in AdCostsReturns(rp_targets), deletion \in Outcomes :
         /\ rp_ads' = ad_costs
         /\ rp_ad_reqs' = (rp_targets # {})
         /\ rp_storage_costs' = (IF ad_costs.kind = "raised" THEN rp_storage_costs
                                 ELSE StorageCostsOf(rp_storage))
         /\ IF ad_costs.kind = "raised" \/ FetchFailed(rp_report, rp_orders)
            THEN ReportExcept(rp_sheet, deletion)
            ELSE /\ rp_pc' = "pnl"
                 /\ UNCHANGED <<rp_sheet, rp_dels, rp_ret>>
    /\ UNCHANGED <<rp_tabs, rp_filled, rp_report, rp_orders, rp_storage, rp_cut,
                   rp_finished, rp_unit, rp_sums, rp_targets>>
    /\ UNCHANGED rp_key
    /\ UNCHANGED <<botVars, execVars, ordVars, rangeVars, fsVars, adVars>>

\* A sheet filler that re-raises: fill_pnl_weekly_sheet and
\* fill_product_analytics_weekly_sheet.
ReportFillSheet(sheet, next_pc) ==
    /\ \E fill \in Outcomes, written \in BOOLEAN, deletion \in Outcomes :
         IF fill = "ok"
         THEN /\ rp_tabs' = rp_tabs \cup {sheet}
              /\ rp_filled' = rp_filled \cup {sheet}
              /\ rp_sums' = rp_sums @@ (sheet :> SheetTotals(sheet, rp_report, rp_orders))
              /\ rp_pc' = next_pc
              /\ UNCHANGED <<rp_sheet, rp_dels, rp_ret>>
         ELSE /\ rp_tabs' = (IF written THEN rp_tabs \cup {sheet} ELSE rp_tabs)
              /\ UNCHANGED <<rp_filled, rp_sums>>
              /\ ReportExcept(rp_sheet, deletion)
    /\ UNCHANGED <<rp_report, rp_orders, rp_storage, rp_cut, rp_finished,
                   rp_storage_costs, rp_unit, rp_targets, rp_ads, rp_ad_reqs>>
    /\ UNCHANGED rp_key
    /\ UNCHANGED <<botVars, execVars, ordVars, rangeVars, fsVars, adVars>>

ReportFillPnl ==
    /\ rp_pc = "pnl"
    /\ ReportFillSheet("pnl", "analytics")

ReportFillAnalytics ==
    /\ rp_pc = "analytics"
    /\ ReportFillSheet("analytics", "unit")

\* create_unit_economics_sheet and fill_unit_economics_sheet, which log
\* their exceptions and return, then the removal of the default sheet and
\* the return of the URL.
ReportUnitEconomics ==
    /\ rp_pc = "unit"
    /\ \E create \in Outcomes, fill \in Outcomes, del_worksheet \in Outcomes,
          deletion \in Outcomes :
         /\ rp_tabs' = (IF create = "ok" THEN rp_tabs \cup {"unit"} ELSE rp_tabs)
         /\ rp_filled' = (IF create = "ok" /\ fill = "ok"
                          THEN rp_filled \cup {"unit"} ELSE rp_filled)
         /\ rp_unit' = (IF create = "ok" /\ fill = "ok"
                        THEN UnitRows(rp_report, rp_orders, rp_ads, rp_storage_costs)
                        ELSE rp_unit)
         /\ rp_sums' = (IF create = "ok" /\ fill = "ok"
                        THEN rp_sums @@ ("unit" :> SheetTotals("unit", rp_report, rp_orders))
                        ELSE rp_sums)
         /\ IF del_worksheet = "raises"
            THEN ReportExcept(rp_sheet, deletion)
            ELSE /\ rp_pc' = "done"
                 /\ rp_ret' = Url
                 /\ UNCHANGED <<rp_sheet, rp_dels>>
    /\ UNCHANGED <<rp_report, rp_orders, rp_storage, rp_cut, rp_finished,
                   rp_storage_costs, rp_targets, rp_ads, rp_ad_reqs>>
    /\ UNCHANGED rp_key
    /\ UNCHANGED <<botVars, execVars, ordVars, rangeVars, fsVars, adVars>>

ReportStart ==
    /\ rp_key \in KeyStates
    /\ rp_pc = "open"
    /\ rp_sheet = "none"
    /\ rp_tabs = {}
    /\ rp_filled = {}
    /\ rp_report = Unset
    /\ rp_orders = Unset
    /\ rp_storage = Unset
    /\ rp_cut = {}
    /\ rp_finished = <<>>
    /\ rp_storage_costs = Unset
    /\ rp_unit = Unset
    /\ rp_sums = <<>>
    /\ rp_targets = {}
    /\ rp_ads = Unset
    /\ rp_ad_reqs = FALSE
    /\ rp_dels = 0
    /\ rp_ret = NoneBody
    /\ ExecIdle
    /\ OrdersIdle
    /\ RangeIdle
    /\ AdvertIdle

InitReport == BotIdle /\ ReportStart

NextReport ==
    \/ ReportOpen
    \/ ReportGather
    \/ ReportAds
    \/ ReportFillPnl
    \/ ReportFillAnalytics
    \/ ReportUnitEconomics

SpecReport == InitReport /\ [][NextReport]_vars

\* C8: on a finite feed the cursor walk issues a finite number of page
\* requests and returns: it never issues more page requests than the feed has
\* records plus one, and until it has returned its next page request can be
\* issued.
C8_WalkIsFinite ==
    /\ ord_pages <= Cardinality(ord_feed) + 1
    /\ ord_pc = "walk" => ENABLED OrdersFetchPage

\* C8 witness: a walk over several pages that ended with the empty page.
C8_Witness ==
    /\ ord_pc = "done"
    /\ ord_ret.kind = "list"
    /\ ~ord_fault
    /\ ord_pages >= 3
    /\ Len(ord_raw) = Cardinality(ord_feed)

InWindowDays(dt, start_date, end_date) ==
    /\ dt \notin {NoDate, BadDate}
    /\ start_date <= DayOf(dt)
    /\ DayOf(dt) <= end_date

\* C9: every record get_wb_orders returns was created inside the requested
\* window, whatever its change-timestamp; a record whose creation timestamp
\* is missing or unparsable is never returned.
C9_OnlyOrdersCreatedInWindow ==
    (ord_pc = "done" /\ ord_ret.kind = "list") =>
        \A i \in 1..Len(ord_ret.items) :
            InWindowDays(ord_ret.items[i].date, ord_start, ord_end)

\* C9 witness: the walk fetched a record created before the window and
\* changed inside it and a record with no usable creation timestamp, and
\* returned a list that holds a record and neither of those two.
C9_Witness ==
    /\ ord_pc = "done"
    /\ ord_ret.kind = "list"
    /\ ord_ret.items # <<>>
    /\ \E i, j \in 1..Len(ord_raw) :
         /\ ord_raw[i].date \in {NoDate, BadDate}
         /\ ord_raw[j].date \notin {NoDate, BadDate}
         /\ ~InWindowDays(ord_raw[j].date, ord_start, ord_end)
         /\ InWindowDays(ord_raw[j].lastChangeDate, ord_start, ord_end)
         /\ ord_raw[i] \notin Range(ord_ret.items)
         /\ ord_raw[j] \notin Range(ord_ret.items)

\* The number of HTTP requests a log holds.
RECURSIVE CountReq(_)
CountReq(log) ==
    IF log = <<>> THEN 0
    ELSE (IF Head(log).ev = "req" THEN 1 ELSE 0) + CountReq(Tail(log))

IsClientError(r) ==
    r.exc = "none" /\ 400 <= r.status /\ r.status < 500 /\ r.status # 429

ReqIndexes(log) == {i \in 1..Len(log) : log[i].ev = "req"}

\* C6: one call of either executor sends at most 3 HTTP requests, whatever
\* the mix of 429, 5xx and network failures, and has returned once the third
\* request was handled.
C6_AtMostThreeRequests ==
    /\ CountReq(ex_log) <= 3
    /\ CountReq(ex_log) = 3 => ex_pc = "done"

\* C6 witness: a finished call whose three requests failed in three
\* different ways (a 429, a 5xx and a network exception).
C6_Witness ==
    /\ ex_pc = "done"
    /\ CountReq(ex_log) = 3
    /\ \E i, j, k \in ReqIndexes(ex_log) :
         /\ ex_log[i].resp.exc = "none" /\ ex_log[i].resp.status = 429
         /\ ex_log[j].resp.exc = "none" /\ ex_log[j].resp.status >= 500
         /\ ex_log[k].resp.exc = "net"

\* Does the returned value carry the status and the body of response r?
CarriesStatusAndBody(ret, r) ==
    /\ ret.kind \in {"tuple", "response"}
    /\ ret.status = r.status
    /\ ret.body = r.body

\* C7: in both executors a 4xx response other than 429 ends the call on that
\* attempt, with no retry and no sleep, and the value returned carries the
\* HTTP status and the response body.
C7_ClientErrorSurfaced ==
    \A i \in ReqIndexes(ex_log) :
        IsClientError(ex_log[i].resp) =>
            /\ i = Len(ex_log)
            /\ ex_pc = "done"
            /\ CarriesStatusAndBody(ex_ret, ex_log[i].resp)

\* C3: in get_wb_weekly_report and get_wb_paid_storage_report, a sub-window
\* whose fetch ended in a hard failure is the last sub-window requested, and
\* the range fetch has returned None, not the records fetched so far.
C3_HardFailureAbortsRange ==
    rg_fn \in {"weekly", "storage"} =>
        \A i \in 1..Len(rg_results) :
            rg_results[i] = "None" =>
                /\ i = Len(rg_results)
                /\ i = Len(rg_windows)
                /\ rg_pc = "done"
                /\ rg_ret = NoneBody

\* A later sub-window fails after earlier ones delivered records, and the
\* range goes on beyond the failed sub-window.
C3_Witness ==
    /\ rg_fn \in {"weekly", "storage"}
    /\ Len(rg_results) >= 2
    /\ rg_results[Len(rg_results)] = "None"
    /\ rg_data # <<>>
    /\ CurrentWindow[2] < rg_end
    /\ rg_pc = "done"

\* C4: a paid-storage job that reported error, canceled or purged is polled
\* no more; its sub-window fetch returned None and so did
\* get_wb_paid_storage_report.
C4_FailedJobReturnsNone ==
    (rg_fn = "storage" /\ st_job.status \in FailedJobStatuses) =>
        /\ rg_pc = "done"
        /\ Len(rg_results) = Len(rg_windows)
        /\ rg_results[Len(rg_results)] = "None"
        /\ rg_ret = NoneBody

\* The job of a later sub-window reports a failed status after polls that
\* found it still running.
C4_Witness ==
    /\ rg_fn = "storage"
    /\ st_job.status \in FailedJobStatuses
    /\ st_wait > PAID_STORAGE_STATUS_CHECK_INTERVAL
    /\ Len(rg_results) >= 2
    /\ rg_data # <<>>
    /\ rg_pc = "done"

\* The days of a sub-window, both ends included, that C10 names per fetcher.
ClaimedChunkDays(fn) ==
    CASE fn = "weekly" -> 7
      [] fn = "storage" -> 8
      [] OTHER -> 30

\* What one fetch of the whole of [start, end] delivers: the rows of the
\* range, and for the statistics the (campaign, day) pairs of the range.
UnchunkedRows == RowsOf(rg_profile, rg_start, rg_end)

UnchunkedDayRows ==
    {<<c, d>> : c \in {c \in Range(fs_ids) : HasSpend(c)}, d \in Range(UnchunkedRows)}

DayRows(stats) ==
    UNION {{<<stats[k].advertId, d>> : d \in Range(stats[k].days)} : k \in 1..Len(stats)}

RECURSIVE DayRowCount(_)
DayRowCount(stats) ==
    IF stats = <<>> THEN 0 ELSE Len(Head(stats).days) + DayRowCount(Tail(stats))

\* The fetch returned its records and lost none to a failed request or to a
\* pagination cut short.
RangeFetchedWhole == rg_pc = "done" /\ rg_ret.kind = "list" /\ ~rg_cut

C5_FailedIsNotNoData ==
    /\ (rg_fn \in {"weekly", "storage"} /\ rg_pc = "done"
           /\ \E k \in 1..Len(rg_results) : rg_results[k] = "None")
          => rg_ret # ListOf(<<>>)
    /\ (ad_pc = "done" /\ ad_failed) => ad_ret # EmptyDict

\* C1: fill_pnl_report has returned the report URL only if the three report
\* sheets were filled to the end, from orders and detail-report data that
\* no fetch had cut short.
C1_UrlOnlyForCompleteReport ==
    (rp_pc = "done" /\ rp_ret = Url) =>
        /\ rp_filled = ReportSheets
        /\ rp_cut = {}

\* C2: once fill_pnl_report is past its check of the fetched data with an
\* orders or detail-report result of None, it has returned None, has
\* written to no report sheet, and has called del_spreadsheet once for the
\* spreadsheet it created.
C2_FailedFetchIsFatal ==
    (rp_pc \in {"pnl", "analytics", "unit", "done"}
       /\ (rp_report.kind = "None" \/ rp_orders.kind = "None")) =>
        /\ rp_pc = "done"
        /\ rp_ret = NoneBody
        /\ rp_tabs = {}
        /\ rp_dels = 1
        /\ rp_sheet \in {"deleted", "delete_failed"}

\* The detail report failed while orders and storage delivered records.
C2_Witness ==
    /\ rp_pc = "done"
    /\ rp_report.kind = "None"
    /\ rp_orders.kind = "list"
    /\ rp_orders.items # <<>>
    /\ rp_storage.kind = "list"
    /\ rp_ret = NoneBody
    /\ rp_dels = 1

\* C11: a paid-storage job is polled at most 60 times, with 5 s of sleep
\* before every poll, and the poller can always take its next step; a job
\* whose last poll (the 60th) still showed no terminal status, an answer
\* other than 200 and a raised request included, made the sub-window fetch
\* and the range fetch return None.
C11_PollerTerminates ==
    rg_fn = "storage" =>
        /\ st_job.polls <= 60
        /\ st_job.slept = 5 * st_job.polls
        /\ (rg_pc = "chunk" /\ st_pc = "poll") =>
               (st_job.polls < 60 /\ ENABLED StoragePoll)
        /\ (rg_pc = "done" /\ st_job.status = "status") =>
               /\ st_job.polls = 60
               /\ rg_results[Len(rg_results)] = "None"
               /\ rg_ret = NoneBody

\* The job of a later sub-window never reports a terminal status: it is
\* polled 60 times and the range fetch returns None.
C11_Witness ==
    /\ rg_fn = "storage"
    /\ rg_pc = "done"
    /\ st_job.status = "status"
    /\ st_job.polls = 60
    /\ st_job.slept = 300
    /\ Len(rg_windows) >= 2
    /\ rg_ret = NoneBody

\* C12: a paid-storage job is downloaded at most once, and after its
\* download request the job is polled no more: the sub-window fetch has
\* returned (the records, or None for a download that failed).
C12_OneDownloadThenReturn ==
    rg_fn = "storage" =>
        /\ st_job.downloads <= 1
        /\ (st_job.downloads = 1 /\ rg_pc = "chunk") => st_pc = "create"

\* C13: in _get_fullstats_data a batch that ended with the 400 'no
\* statistics' answer was taken as an empty answer, and a batch that ended
\* with any other 4xx answer made the statistics fetch end in failure
\* instead of returning its list.
C13_NoStatisticsIsNotAFailure ==
    rg_fn = "fullstats" =>
        \A k \in 1..Len(rg_results) :
            /\ rg_results[k].answer = "no_stats_400" => rg_results[k].branch = "empty"
            /\ rg_results[k].answer = "other_4xx" =>
                   (rg_pc = "done" /\ rg_ret.kind # "list")

\* C14: every campaign ID handed to _get_fullstats_data by
\* get_aggregated_ad_costs is of a campaign in an active status, with an
\* article among the targets, and with an end time that is missing,
\* unreadable, or not before the start day.
C14_OnlyRelevantCampaigns ==
    (rg_fn = "fullstats" /\ ad_pc \in {"fullstats", "done"}) =>
        \A k \in 1..Len(fs_ids) :
            /\ fs_ids[k] \in 1..ad_account.n
            /\ IsActiveCampaign(ad_account, fs_ids[k])
            /\ CampaignNms(ad_account, fs_ids[k]) \cap ad_targets # {}
            /\ \/ CampaignEndTime(ad_account, fs_ids[k]) \in {NoDate, BadDate}
               \/ CampaignEndTime(ad_account, fs_ids[k]) >= ad_start

\* An account with campaigns of every kind, a window that starts after some
\* of them ended, and campaigns without a usable end time passed on.
C14_Witness ==
    /\ rg_fn = "fullstats"
    /\ ad_pc = "fullstats"
    /\ ad_account.mix = "mixed"
    /\ \E c \in Range(ad_details) : EndedBeforeStart(ad_account, c, ad_start)
    /\ \E c \in Range(ad_details) : CampaignNms(ad_account, c) \cap ad_targets = {}
    /\ \E k \in 1..Len(fs_ids) : CampaignEndTime(ad_account, fs_ids[k]) = BadDate
    /\ \E k \in 1..Len(fs_ids) : CampaignEndTime(ad_account, fs_ids[k]) = NoDate
    /\ \E k \in 1..Len(fs_ids) : CampaignEndTime(ad_account, fs_ids[k]) >= ad_start

\* The statistics entries (campaign entry k, day d, app a, nm n) of the
\* statistics that _get_fullstats_data came back with.
StatEntries ==
    {e \in (1..Len(rg_data)) \X (1..FULLSTATS_WINDOW_STEP) \X (1..2) \X (1..2) :
        /\ e[2] <= Len(rg_data[e[1]].days)
        /\ e[3] <= Len(StatApps(ad_account, rg_data[e[1]].advertId))
        /\ e[4] <= Len(StatApps(ad_account, rg_data[e[1]].advertId)[e[3]])}

EntryDate(e) == rg_data[e[1]].days[e[2]]
EntryNm(e) == StatApps(ad_account, rg_data[e[1]].advertId)[e[3]][e[4]].nmId
EntrySum(e) == StatApps(ad_account, rg_data[e[1]].advertId)[e[3]][e[4]].sum

RECURSIVE SumOfEntries(_)
SumOfEntries(S) ==
    IF S = {} THEN 0
    ELSE LET e == CHOOSE x \in S : TRUE IN EntrySum(e) + SumOfEntries(S \ {e})

\* C15: every key (date, productId) of the mapping returned by
\* get_aggregated_ad_costs has its productId among the targets and its value
\* is the sum of the 'sum' amounts of all statistics entries with that date
\* and product; every target product with an entry has its key.
C15_AdCostsAreTargetSums ==
    (rg_fn = "fullstats" /\ rg_pc = "done" /\ ad_pc = "done" /\ ad_ret.kind = "dict") =>
        /\ \A key \in DOMAIN ad_ret.items :
              /\ key[2] \in ad_targets
              /\ ad_ret.items[key] =
                     SumOfEntries({e \in StatEntries : EntryDate(e) = key[1]
                                                       /\ EntryNm(e) = key[2]})
        /\ \A e \in StatEntries :
              EntryNm(e) \in ad_targets => <<EntryDate(e), EntryNm(e)>> \in DOMAIN ad_ret.items

\* Statistics with spend on an article outside the targets and with several
\* entries for one date and target article were aggregated.
C15_Witness ==
    /\ rg_fn = "fullstats"
    /\ rg_pc = "done"
    /\ ad_pc = "done"
    /\ ad_ret.kind = "dict"
    /\ \E e \in StatEntries : EntryNm(e) = ForeignNm
    /\ \E e \in StatEntries : EntryNm(e) = NoNm
    /\ \E key \in DOMAIN ad_ret.items :
          Cardinality({e \in StatEntries : EntryDate(e) = key[1] /\ EntryNm(e) = key[2]}) >= 2

\* C16: within one get_aggregated_ad_costs call any two successive requests
\* to the statistics endpoint (batches, sub-windows, retries) are at least
\* FULLSTATS_REQUEST_DELAY seconds of sleep apart, and once the last batch of
\* the last sub-window is handled every pacing sleep was followed by a
\* further batch.
C16_StatsRequestsPaced ==
    (rg_fn = "fullstats" /\ ad_pc \in {"fullstats", "done"}) =>
        /\ fs_gap = NONE \/ fs_gap >= FULLSTATS_REQUEST_DELAY
        /\ (rg_pc = "done" /\ rg_ret.kind = "list") =>
               Len(rg_sleeps) = Len(rg_results) - 1

\* The metadata loop of the call has run to its end.
DetailsLoopDone ==
    /\ ad_active # <<>>
    /\ rg_fn = "fullstats" \/ (ad_pc = "done" /\ ad_ret.kind # "raised")

\* The number of IDs carried by a sequence of batches, and the IDs carried.
RECURSIVE IdsCarried(_)
IdsCarried(batches) ==
    IF batches = <<>> THEN 0 ELSE Len(Head(batches)) + IdsCarried(Tail(batches))

IdSetCarried(batches) == UNION {Range(batches[k]) : k \in 1..Len(batches)}

\* The ID batches of the statistics requests of the sub-window w.
StatsBatches(w) ==
    LET reqs == SelectSeq(rg_results, LAMBDA r : r.window = w)
    IN  [k \in 1..Len(reqs) |-> reqs[k].ids]

\* C17: no metadata request carries more than DETAILS_CHUNK_SIZE IDs and no
\* statistics request more than FULLSTATS_ID_CHUNK_SIZE; once the metadata
\* loop has ended every active campaign was sent in exactly one metadata
\* batch (the batches carry the active campaigns and as many IDs as there
\* are active campaigns), and once the statistics loop has ended every
\* relevant campaign was sent in exactly one statistics batch of every
\* sub-window.
C17_BatchesPartitionIds ==
    ad_pc \in {"details", "fullstats", "done"} =>
        /\ \A k \in 1..Len(ad_batches) :
              Len(ad_batches[k]) \in 1..DETAILS_CHUNK_SIZE
        /\ rg_fn = "fullstats" =>
              \A k \in 1..Len(rg_results) :
                  /\ Len(rg_results[k].ids) \in 1..FULLSTATS_ID_CHUNK_SIZE
                  /\ rg_results[k].window \in Range(rg_windows)
        /\ DetailsLoopDone =>
              LET active == {c \in 1..ad_account.n : IsActiveCampaign(ad_account, c)}
              IN  /\ IdSetCarried(ad_batches) = active
                  /\ IdsCarried(ad_batches) = Cardinality(active)
        /\ (rg_fn = "fullstats" /\ rg_pc = "done" /\ rg_ret.kind = "list") =>
              \A w \in Range(rg_windows) :
                  /\ IdSetCarried(StatsBatches(w)) = Range(fs_ids)
                  /\ IdsCarried(StatsBatches(w)) = Cardinality(Range(fs_ids))

\* An account whose active campaigns need three metadata batches and whose
\* relevant campaigns need two statistics batches in each of two sub-windows.
C17_Witness ==
    /\ ad_pc = "done"
    /\ rg_fn = "fullstats"
    /\ rg_pc = "done"
    /\ rg_ret.kind = "list"
    /\ Len(ad_batches) = 3
    /\ Len(ad_batches[1]) = DETAILS_CHUNK_SIZE
    /\ Len(fs_ids) > FULLSTATS_ID_CHUNK_SIZE
    /\ Len(rg_windows) = 2
    /\ Len(rg_results) = 4
    /\ Len(rg_results[1].ids) = FULLSTATS_ID_CHUNK_SIZE

\* The product IDs of the orders that get_wb_orders returned.
OrderedNmIds ==
    IF rp_orders.kind # "list" THEN {}
    ELSE {nm \in {TargetNm, ForeignNm} :
             \E k \in 1..Len(rp_orders.items) : rp_orders.items[k].nmId = nm}

\* C18: in fill_pnl_report the three fetches of asyncio.gather are all under
\* way until each has finished (any of those still running may be the next to
\* finish); the advertising fetch starts only when all three have finished,
\* with exactly the product IDs of the returned orders as its targets; and
\* no storage aggregation and no sheet is there before the advertising fetch
\* has returned.
C18_AdsAfterGatherBeforeSheets ==
    /\ rp_pc = "gather" =>
          /\ \A task \in Fetches \ Range(rp_finished) : ENABLED ReportFetchDone(task)
          /\ rp_ads = Unset
    /\ (rp_pc = "ads" \/ rp_ads # Unset) =>
          /\ Range(rp_finished) = Fetches
          /\ Unset \notin {rp_report, rp_orders, rp_storage}
          /\ rp_targets = OrderedNmIds
    /\ (rp_storage_costs # Unset \/ rp_tabs # {} \/ rp_unit # Unset) =>
          rp_ads.kind = "dict"

\* A finished report of a run in which the storage fetch, started last,
\* finished first and the orders were of two articles.
C18_Witness ==
    /\ rp_ret = Url
    /\ rp_finished = <<"storage", "orders", "report">>
    /\ rp_targets = {TargetNm, ForeignNm}
    /\ rp_ads.kind = "dict"
    /\ rp_ads.items # <<>>
    /\ rp_filled = ReportSheets

\* The storage fetch returned None; the orders and the detail report came.
StorageFailedOnly ==
    /\ rp_storage = NoneBody
    /\ rp_report.kind = "list"
    /\ rp_orders.kind = "list"

\* C19: when only the paid-storage fetch returned None, fill_pnl_report goes
\* on to the sheets once the advertising fetch has returned (its storage
\* costs are empty), every row of the unit-economics sheet has a storage
\* cost of zero, and the URL is returned when the run ends with the
\* spreadsheet kept.
C19_StorageFailureDegrades ==
    [][StorageFailedOnly =>
          /\ (rp_pc = "ads" /\ rp_ads'.kind = "dict") =>
                 (rp_pc' = "pnl" /\ rp_storage_costs' = EmptyDict)
          /\ (rp_pc = "unit" /\ "unit" \in rp_filled') =>
                 \A key \in DOMAIN rp_unit' : rp_unit'[key].storage_cost = 0
          /\ (rp_pc = "unit" /\ rp_sheet' = "created") => rp_ret' = Url]_vars

\* A report made without storage data: its unit-economics rows carry the
\* advertising cost and a storage cost of zero.
C19_Witness ==
    /\ StorageFailedOnly
    /\ rp_ret = Url
    /\ rp_filled = ReportSheets
    /\ \E key \in DOMAIN rp_unit :
          rp_unit[key].storage_cost = 0 /\ rp_unit[key].advertising_cost > 0

\* The orders a list of n rows can be processed in.
RowOrders(n) == {p \in [1..n -> 1..n] : \A i, j \in 1..n : p[i] = p[j] => i = j}

\* C20: for each of the three aggregations (per-day P&L, per-product
\* analytics, per-product unit economics), the totals accumulated from the
\* rows of the detail report are the same for every key in whatever order
\* the rows are processed.
C20_TotalsIndependentOfOrder ==
    rp_report.kind = "list" =>
        \A sheet \in DOMAIN rp_sums :
            \A p \in RowOrders(Len(rp_report.items)) :
                SheetTotals(sheet,
                            ListOf([i \in 1..Len(rp_report.items) |->
                                       rp_report.items[p[i]]]),
                            rp_orders) = rp_sums[sheet]

\* The rows of the detail report without the i-th.
WithoutRow(i) ==
    ListOf(SubSeq(rp_report.items, 1, i - 1) \o
           SubSeq(rp_report.items, i + 1, Len(rp_report.items)))

\* The sales totals and the returns totals of a key of a sheet.
SalesOf(sheet, totals, key) ==
    LET t == IF key \in DOMAIN totals THEN totals[key]
             ELSE IF sheet = "unit" THEN ZeroProduct ELSE ZeroTotals
    IN  IF sheet = "unit" THEN <<t.sales_rub, t.sales_pcs>>
        ELSE <<t.sales_before_spp, t.sales_quantity>>

ReturnsOf(sheet, totals, key) ==
    LET t == IF key \in DOMAIN totals THEN totals[key]
             ELSE IF sheet = "unit" THEN ZeroProduct ELSE ZeroTotals
    IN  IF sheet = "unit" THEN <<t.returns_rub, t.returns_pcs>> ELSE <<t.returns>>

\* The i-th row has added to the sales (returns) totals of a key of the
\* sheet: the totals differ from those of the other rows alone.
AddsToSales(sheet, i) ==
    \E key \in DOMAIN rp_sums[sheet] :
        SalesOf(sheet, rp_sums[sheet], key) #
            SalesOf(sheet, SheetTotals(sheet, WithoutRow(i), rp_orders), key)

AddsToReturns(sheet, i) ==
    \E key \in DOMAIN rp_sums[sheet] :
        ReturnsOf(sheet, rp_sums[sheet], key) #
            ReturnsOf(sheet, SheetTotals(sheet, WithoutRow(i), rp_orders), key)

\* C21: in each of the three aggregations no row of the detail report adds
\* to both the sales totals and the returns totals, whatever its document
\* type name is.
C21_NeverSaleAndReturn ==
    rp_report.kind = "list" =>
        \A sheet \in DOMAIN rp_sums :
            \A i \in 1..Len(rp_report.items) :
                ~(AddsToSales(sheet, i) /\ AddsToReturns(sheet, i))

\* The document type name of a row has the word, in any letter case.
InAnyCase(word, row) ==
    /\ row.doc_type_name.kind = "str"
    /\ LET chars == row.doc_type_name.chars
       IN  \E i \in 1..(Len(chars) - Len(word) + 1) :
               \A j \in 1..Len(word) :
                   \/ chars[i + j - 1] = word[j]
                   \/ /\ chars[i + j - 1] \in DOMAIN LowerCase
                      /\ LowerCase[chars[i + j - 1]] = word[j]

\* C22: a row whose document type name has the return word in any letter
\* case and not the sale word adds to the returns totals only, and a row
\* whose name has neither word, or that has no name, adds to neither the
\* sales nor the returns totals.
C22_ClassifiedBySubstring ==
    rp_report.kind = "list" =>
        \A sheet \in DOMAIN rp_sums :
            \A i \in 1..Len(rp_report.items) :
                LET row == rp_report.items[i]
                    counted == ~HasNoKey(sheet, RecordKey(sheet, "row", row))
                IN  /\ ( /\ InAnyCase(ReturnWord, row)
                         /\ ~InAnyCase(SaleWord, row)
                         /\ counted /\ row.retail_amount > 0 /\ row.quantity > 0 )
                       => AddsToReturns(sheet, i) /\ ~AddsToSales(sheet, i)
                    /\ ( ~InAnyCase(ReturnWord, row) /\ ~InAnyCase(SaleWord, row) )
                       => ~AddsToReturns(sheet, i) /\ ~AddsToSales(sheet, i)

\* All three sheets are filled from rows among which one has the return word
\* in capitals only, one has it capitalised and one has neither word.
C22_Witness ==
    /\ DOMAIN rp_sums = ReportSheets
    /\ rp_report.kind = "list"
    /\ \E i, j, k \in 1..Len(rp_report.items) :
          /\ InAnyCase(ReturnWord, rp_report.items[i])
          /\ ~Contains(ReturnWord, DocTypeAsWritten(rp_report.items[i]))
          /\ rp_report.items[i].doc_type_name = DocTypeNames.warranty
          /\ rp_report.items[j].doc_type_name = DocTypeNames.caps
          /\ ~InAnyCase(ReturnWord, rp_report.items[k])
          /\ ~InAnyCase(SaleWord, rp_report.items[k])
          /\ \A sheet \in ReportSheets :
                AddsToReturns(sheet, i) /\ AddsToReturns(sheet, j)

\* C23: for every key of the per-day and of the per-product aggregation, the
\* net-payable total is the key's amount payable minus its adjustments,
\* penalties, forward logistics, reverse logistics, storage, acceptance,
\* advertising and returns totals.
C23_NetPayableIsDerived ==
    \A sheet \in DOMAIN rp_sums \cap {"pnl", "analytics"} :
        \A key \in DOMAIN rp_sums[sheet] :
            LET t == rp_sums[sheet][key]
            IN  t.total_to_pay =
                    t.to_pay - t.adjustments - t.penalties - t.forward_logistics
                        - t.reverse_logistics - t.storage - t.acceptance
                        - t.advertising - t.returns

\* The orders of a key of a sheet, by their place in the list of orders.
OrdersOf(sheet, key) ==
    {k \in 1..Len(rp_orders.items) :
        RecordKey(sheet, "order", rp_orders.items[k]) = key}

\* The sum over the orders S of totalPrice x (1 - discountPercent / 100)
RECURSIVE SumOfOrders(_)
SumOfOrders(S) ==
    IF S = {} THEN 0
    ELSE LET k == CHOOSE x \in S : TRUE
             order == rp_orders.items[k]
         IN  (order.totalPrice * (100 - order.discountPercent)) \div 100
                 + SumOfOrders(S \ {k})

\* The one order and the one sale row of the example
ExampleInput ==
    /\ rp_orders = ListOf(<<Order(TargetNm, 0, 1000, 10)>>)
    /\ rp_report = ListOf(<<DetailRow(0, TargetNm, DocTypeNames.sale, 1, 900, 800)>>)

\* C24: for every key, the orders count is the number of the key's orders
\* and the orders amount is the sum over them of totalPrice x (1 -
\* discountPercent / 100); one order of price 1000 and discount 10 with one
\* sale row of quantity 1, retail amount 900 and amount payable 800 gives
\* orders amount 900, sales amount 900, sales quantity 1 and net payable 800.
C24_OrdersAndExample ==
    \A sheet \in DOMAIN rp_sums :
        /\ \A key \in DOMAIN rp_sums[sheet] :
              LET t == rp_sums[sheet][key]
              IN  IF sheet = "unit"
                  THEN /\ t.orders_pcs = Cardinality(OrdersOf(sheet, key))
                       /\ t.orders_rub = SumOfOrders(OrdersOf(sheet, key))
                  ELSE /\ t.orders_count = Cardinality(OrdersOf(sheet, key))
                       /\ t.orders = SumOfOrders(OrdersOf(sheet, key))
        /\ \A k \in 1..Len(rp_orders.items) :
              LET key == RecordKey(sheet, "order", rp_orders.items[k])
              IN  HasNoKey(sheet, key) \/ key \in DOMAIN rp_sums[sheet]
        /\ ExampleInput =>
              LET key == IF sheet = "pnl" THEN 0 ELSE TargetNm
                  t == rp_sums[sheet][key]
              IN  /\ DOMAIN rp_sums[sheet] = {key}
                  /\ IF sheet = "unit"
                     THEN t.orders_rub = 900 /\ t.sales_rub = 900 /\ t.sales_pcs = 1
                     ELSE /\ t.orders = 900 /\ t.sales_before_spp = 900
                          /\ t.sales_quantity = 1 /\ t.total_to_pay = 800

\* All three sheets are filled from the input of the example.
C24_Witness == DOMAIN rp_sums = ReportSheets /\ ExampleInput

\* The fraction is the quotient of a by b.
IsQuotient(fraction, a, b) == fraction.den # 0 /\ fraction.num * b = a * fraction.den

SharedMetrics ==
    {"sales amount", "returns amount", "sales quantity", "forward logistics",
     "reverse logistics", "penalties", "adjustments"}

MetricOf(sheet, t, metric) ==
    IF sheet = "unit"
    THEN CASE metric = "sales amount" -> t.sales_rub
           [] metric = "returns amount" -> t.returns_rub
           [] metric = "sales quantity" -> t.sales_pcs
           [] metric = "forward logistics" -> t.logistics_forward_rub
           [] metric = "reverse logistics" -> t.logistics_reverse_rub
           [] metric = "penalties" -> t.penalty_rub
           [] metric = "adjustments" -> t.adjustments_rub
    ELSE CASE metric = "sales amount" -> t.sales_before_spp
           [] metric = "returns amount" -> t.returns
           [] metric = "sales quantity" -> t.sales_quantity
           [] metric = "forward logistics" -> t.forward_logistics
           [] metric = "reverse logistics" -> t.reverse_logistics
           [] metric = "penalties" -> t.penalties
           [] metric = "adjustments" -> t.adjustments

RECURSIVE GrandTotal(_, _, _)
GrandTotal(sheet, keys, metric) ==
    IF keys = {} THEN 0
    ELSE LET key == CHOOSE k \in keys : TRUE
         IN  MetricOf(sheet, rp_sums[sheet][key], metric)
                 + GrandTotal(sheet, keys \ {key}, metric)

\* C26: for rows that all carry a date and a product ID, the grand total
\* over all keys of every shared metric is the same in the per-day P&L
\* aggregation, the per-product analytics aggregation and the per-product
\* unit-economics aggregation.
C26_GrandTotalsAgree ==
    ( /\ DOMAIN rp_sums = ReportSheets
      /\ \A i \in 1..Len(rp_report.items) :
            rp_report.items[i].rr_dt # NONE /\ rp_report.items[i].nm_id # NoNm )
    => \A metric \in SharedMetrics :
          \A sheet \in {"analytics", "unit"} :
              GrandTotal(sheet, DOMAIN rp_sums[sheet], metric) =
                  GrandTotal("pnl", DOMAIN rp_sums["pnl"], metric)

\* The storage rows of an article, by their place in the list, and the sum
\* of their charges.
StorageRowsOf(nm_id) ==
    IF rp_storage.kind = "list"
    THEN {k \in 1..Len(rp_storage.items) : rp_storage.items[k].nmId = nm_id}
    ELSE {}

RECURSIVE SumOfCharges(_)
SumOfCharges(S) ==
    IF S = {} THEN 0
    ELSE LET k == CHOOSE x \in S : TRUE
         IN  rp_storage.items[k].warehousePrice + SumOfCharges(S \ {k})

\* The sum of the ad-spend entries of an article.
RECURSIVE SumOfSpend(_)
SumOfSpend(S) ==
    IF S = {} THEN 0
    ELSE LET key == CHOOSE x \in S : TRUE
         IN  rp_ads.items[key] + SumOfSpend(S \ {key})

FetchIssued == rp_pc \notin {"open", "done"} \/ rp_finished # <<>>

\* C28, as claimed: a run whose API key is absent or invalid is aborted
\* before any data fetch of the run is issued.
C28_KeyCheckedBeforeAnyFetch == rp_key # "valid" => ~FetchIssued

\* C28, amended: a run whose API key is absent is aborted before any data
\* fetch is issued and before the spreadsheet is created; a run whose key is
\* invalid issues its fetches and ends without a report.
C28_AbsentKeyStopsRun ==
    /\ rp_key = "absent" =>
          /\ ~FetchIssued
          /\ rp_sheet = "none"
          /\ rp_ret = NoneBody
    /\ rp_key = "invalid" => rp_ret = NoneBody

\* A run without a key has ended.
C28_Witness == rp_key = "absent" /\ rp_pc = "done"

(***************************************************************************)
(* The two paginated fetches side by side: a call of get_wb_orders or a    *)
(* call of get_wb_weekly_report.                                           *)
(***************************************************************************)
InitPages == InitOrders \/ (InitRange /\ rg_fn = "weekly")

NextPages ==
    \/ OrdersFetchPage
    \/ DetailFetchPage

SpecPages == InitPages /\ [][NextPages]_vars

\* A page request ended in a hard failure: the retries were exhausted, the
\* status is not 200, or the body is not a list.
HardFailure(last) ==
    /\ last # NoneBody
    /\ last.status = NONE \/ last.status # 200 \/ last.body.kind # "list"

\* C30: a hard failure on a page of the orders cursor walk makes
\* get_wb_orders return None, and a hard failure on a page of the rrdid
\* pagination makes the fetch of the detail-report chunk return None; the
\* pages fetched before are not returned.
C30_PageFailureReturnsNone ==
    /\ HardFailure(ord_last) => ord_pc = "done" /\ ord_ret = NoneBody
    /\ HardFailure(dt_last) =>
          /\ rg_results # <<>>
          /\ rg_results[Len(rg_results)] = "None"
          /\ rg_pc = "done" /\ rg_ret = NoneBody

\* A page of either fetch fails after earlier pages delivered records.
C30_Witness ==
    \/ HardFailure(ord_last) /\ ord_raw # <<>> /\ ord_last.status = 200
    \/ HardFailure(dt_last) /\ dt_all # <<>> /\ dt_last.status = 200

\* C29: when a request of the advertising pipeline (campaign count, a
\* metadata batch, a statistics batch) failed for good, advertising
\* contributes zero to every key: get_aggregated_ad_costs returns no costs,
\* never the sums of the batches that succeeded.
C29_FailedAdsContributeZero ==
    (ad_pc = "done" /\ ad_failed /\ ad_ret.kind = "dict") => ad_ret = EmptyDict

\* C31: when the last record of an orders page has no lastChangeDate,
\* get_wb_orders logs the fault and requests no further page: the walk is
\* over and the records fetched so far are filtered and returned.
C31_MissingChangeDateEndsWalk ==
    /\ (ord_raw # <<>> /\ ord_raw[Len(ord_raw)].lastChangeDate = NoDate) =>
          /\ ord_fault
          /\ ord_pc = "done"
    /\ ord_fault =>
          /\ ord_pc = "done"
          /\ ord_raw # <<>>
          /\ ord_raw[Len(ord_raw)].lastChangeDate = NoDate
          /\ ord_ret = OrdersResult(ord_raw, ord_start, ord_end)

\* The fault ended a walk on its second page or later.
C31_Witness ==
    /\ ord_fault
    /\ ord_pages >= 2
    /\ ord_pc = "done"

\* C32: the creation-time window of get_wb_orders runs from 00:00:00 of the
\* start day to the last instant of the end day: every fetched record
\* created on a day of the window, at start-day midnight or within the last
\* second of the end day, is returned.
C32_WholeEndDayKept ==
    (ord_pc = "done" /\ ord_ret.kind = "list") =>
        \A i \in 1..Len(ord_raw) :
            InWindowDays(ord_raw[i].date, ord_start, ord_end) =>
                ord_raw[i] \in Range(ord_ret.items)

\* The number of sub-windows of a range of the fetcher.
RECURSIVE WindowCount(_, _, _)
WindowCount(fn, current_start, end_date) ==
    IF current_start > end_date THEN 0
    ELSE 1 + WindowCount(fn, NextStart(ChunkEnd(fn, current_start, end_date)), end_date)

\* C33, as claimed: get_wb_paid_storage_report sleeps 61 s between two
\* consecutive sub-window fetches and not after the last one, k - 1 times
\* over k sub-windows; get_wb_weekly_report does not sleep between
\* sub-windows and sleeps 1 s after every non-empty page.
C33_PacingPerEndpoint ==
    /\ rg_fn = "storage" =>
          /\ rg_sleeps = [i \in 1..(Len(rg_windows) - 1) |-> 61]
          /\ (rg_pc = "done" /\ rg_ret.kind = "list") =>
                 Len(rg_windows) = WindowCount("storage", rg_start, rg_end)
    /\ rg_fn = "weekly" => rg_sleeps = [i \in 1..dt_pages |-> 1]

\* C33, amended: as claimed, but get_wb_weekly_report sleeps 1 s after every
\* non-empty page whose last row carries an rrd_id.
C33_PacingPerEndpointWithRrdId ==
    /\ rg_fn = "storage" =>
          /\ rg_sleeps = [i \in 1..(Len(rg_windows) - 1) |-> 61]
          /\ (rg_pc = "done" /\ rg_ret.kind = "list") =>
                 Len(rg_windows) = WindowCount("storage", rg_start, rg_end)
    /\ rg_fn = "weekly" => rg_sleeps = [i \in 1..dt_paced |-> 1]

\* A paid-storage report over three sub-windows has been fetched, or a
\* weekly report over two sub-windows with several pages in one of them and
\* a page whose last row had no rrd_id.
C33_Witness ==
    /\ rg_pc = "done"
    /\ rg_ret.kind = "list"
    /\ \/ rg_fn = "storage" /\ Len(rg_windows) = 3 /\ Len(rg_sleeps) = 2
       \/ /\ rg_fn = "weekly" /\ Len(rg_windows) >= 2
          /\ dt_paced > Len(rg_windows) /\ dt_pages > dt_paced

\* Is response r a rate-limit or a server-side answer?
IsRetryable(r) == r.exc = "none" /\ (r.status = 429 \/ r.status >= 500)

\* The sleep that follows request i of the log, 0 when none does.
SleepAfter(log, i) ==
    IF i < Len(log) /\ log[i + 1].ev = "sleep" THEN log[i + 1].secs ELSE 0

\* The number of the attempt that sent request i of the log.
AttemptOf(log, i) == Cardinality({j \in ReqIndexes(log) : j <= i})

\* Every request after the first one was preceded by the sleep that the
\* function stat_sleep gives for the failed attempt before it; the
\* advertising executor's sleeps follow its two ladders.
BackoffLadders(stat_sleep(_)) ==
    \A i \in ReqIndexes(ex_log) :
        LET r == ex_log[i].resp
            n == AttemptOf(ex_log, i)
            retried == \E j \in ReqIndexes(ex_log) : j > i
        IN  /\ (ex_fn = "advert" /\ retried /\ IsRetryable(r)) =>
                   SleepAfter(ex_log, i) = 61 * (2 ^ (n - 1))
            /\ (ex_fn = "advert" /\ retried /\ r.exc = "net") =>
                   SleepAfter(ex_log, i) = 10 * (2 ^ (n - 1))
            /\ (ex_fn = "simple" /\ retried /\ IsRetryable(r)) =>
                   SleepAfter(ex_log, i) = stat_sleep(r)

Always60(r) == 60

By429(r) == IF r.status = 429 THEN 60 ELSE 30

\* C34, as claimed: before each retry after a 429 or 5xx response the
\* advertising executor sleeps 61 * 2^(n-1) seconds for the n-th failed
\* attempt and the statistics executor sleeps 60 seconds; after a network
\* fault the advertising executor sleeps 10 * 2^(n-1) seconds.
C34_BackoffLadders == BackoffLadders(Always60)

\* C34, amended: as claimed, but the statistics executor sleeps 60 seconds
\* after a 429 response and 30 seconds after a 5xx response.
C34_BackoffLaddersBy429 == BackoffLadders(By429)

\* A call of the statistics executor that was answered 429, then 5xx, and
\* sent its third request.
C34_Witness ==
    /\ ex_fn = "simple"
    /\ ex_pc = "done"
    /\ CountReq(ex_log) = 3
    /\ ex_log[1].resp.status = 429
    /\ ex_log[3].ev = "req" /\ ex_log[3].resp.exc = "none"
    /\ ex_log[3].resp.status >= 500
    /\ Len(ex_log) >= 5

(***************************************************************************)
(* main.main and the scheduler it registers refresh_token with.  The       *)
(* scheduler is the module-level `scheduler = AsyncIOScheduler()`: it is   *)
(* constructed stopped, keeps the jobs added to it while stopped as        *)
(* pending, and runs jobs only once it has been started.                   *)
(***************************************************************************)
CRON_HOUR == 0
CRON_MINUTE == 1
REFRESH_JOB == "daily_refresh_token"

\* One minute later on the clock.
NextMinute(clock) ==
    IF clock[2] < 59 THEN <<clock[1], clock[2] + 1>>
    ELSE IF clock[1] < 23 THEN <<clock[1] + 1, 0>>
    ELSE <<0, 0>>

\* `scheduler = AsyncIOScheduler()`
SchedulerAtImport == "stopped"

\* main() up to `await dp.start_polling(bot)`: no await comes before it.
MainStartup ==
    /\ bot_pc = "startup"
    \* scheduler.remove_job(...): JobLookupError when there is no such job,
    \* swallowed by the bare except
    /\ LET pending == sch_pending \ {REFRESH_JOB}
           jobs == sch_jobs \ {REFRESH_JOB}
       IN  \* scheduler.add_job(refresh_token, 'cron', hour=0, minute=1, ...)
           IF sch_state = "stopped"
           THEN /\ sch_pending' = pending \cup {REFRESH_JOB}
                /\ sch_jobs' = jobs
           ELSE /\ sch_pending' = pending
                /\ sch_jobs' = jobs \cup {REFRESH_JOB}
    /\ bot_pc' = "polling"
    /\ UNCHANGED <<sch_state, sch_clock, sch_refreshed>>
    /\ UNCHANGED <<handlerVars, keyVars, execVars, ordVars, rangeVars, fsVars, adVars, reportVars>>

\* One minute of dp.start_polling(bot): the event loop runs, and a running
\* scheduler calls the jobs of its store that are due.
PollingMinute ==
    /\ bot_pc = "polling"
    /\ sch_clock' = NextMinute(sch_clock)
    /\ sch_refreshed' =
          (\/ sch_refreshed
           \/ /\ sch_state = "running"
              /\ REFRESH_JOB \in sch_jobs
              /\ sch_clock' = <<CRON_HOUR, CRON_MINUTE>>)
    /\ UNCHANGED <<bot_pc, sch_state, sch_pending, sch_jobs>>
    /\ UNCHANGED <<handlerVars, keyVars, execVars, ordVars, rangeVars, fsVars, adVars, reportVars>>

InitSched ==
    /\ bot_pc = "startup"
    /\ sch_state = SchedulerAtImport
    /\ sch_pending = {}
    /\ sch_jobs = {}
    /\ sch_clock \in (0..23) \X (0..59)
    /\ sch_refreshed = FALSE
    /\ HandlerIdle
    /\ KeysIdle
    /\ ExecIdle
    /\ OrdersIdle
    /\ RangeIdle
    /\ AdvertIdle
    /\ ReportIdle

NextSched ==
    \/ MainStartup
    \/ PollingMinute

\* The bot keeps running: the event loop is never stopped for good.
SpecSched == InitSched /\ [][NextSched]_vars /\ WF_vars(NextSched)

\* C35: the credential-refresh job registered at startup is invoked on its
\* timer: while the bot keeps running, refresh_token is eventually called.
C35_RefreshEventuallyCalled == <>sch_refreshed

\* How many times record r stands in the sequence items.
Occurrences(r, items) == Cardinality({i \in 1..Len(items) : items[i] = r})

\* C36: when the cursor walk ends normally, every feed record whose
\* change-timestamp is at or after the window start and whose creation
\* timestamp is inside the window appears in the result of get_wb_orders
\* exactly once, none lost and none duplicated, also when several records
\* share the change-timestamp of the last record of a page.
C36_EveryRecordExactlyOnce ==
    (ord_pc = "done" /\ ord_ret.kind = "list" /\ ~ord_fault) =>
        \A r \in ord_feed :
            (/\ r.lastChangeDate # NoDate
             /\ r.lastChangeDate >= StartDtMoscow(ord_start)
             /\ _is_within_date_range(r, StartDtMoscow(ord_start),
                                      EndDtMoscow(ord_end))) =>
                Occurrences(r, ord_ret.items) = 1

\* C37: if the orders fetch or the detail-report fetch of a report run
\* yielded the failure sentinel, the run has sent no request to the
\* advertising API when it returns failure.
C37_NoAdRequestAfterFailedFetch ==
    (rp_pc = "done" /\ FetchFailed(rp_report, rp_orders)) =>
        /\ rp_ret = NoneBody
        /\ ~rp_ad_reqs

\* C38: when the third attempt of an executor call has failed, the call
\* returns its failure result without another backoff sleep: the last thing
\* a finished call did is a request, in both executors.
C38_NoSleepAfterLastAttempt ==
    (ex_pc = "done" /\ CountReq(ex_log) = 3) =>
        ex_log[Len(ex_log)].ev = "req"

(***************************************************************************)
(* main.generate_and_send_report around its call of fill_pnl_report, and   *)
(* analytic_report.schedule_sheet_deletion, the task it creates.           *)
(***************************************************************************)
DELETION_DELAY_HOURS == 12

\* `if report_url:`
DeletionDue(report_url) == report_url = Url

\* fill_pnl_report has returned: the deletion is scheduled and the user is
\* answered.
HandlerSchedule ==
    /\ hd_pc = "run"
    /\ rp_pc = "done"
    /\ hd_tasks' = (IF DeletionDue(rp_ret) THEN hd_tasks + 1 ELSE hd_tasks)
    /\ hd_pc' = "menu"
    /\ UNCHANGED <<hd_ran, hd_slept, hd_attempts>>
    /\ UNCHANGED <<schedVars, keyVars, execVars, ordVars, rangeVars, fsVars, adVars, reportVars>>

\* What the body of schedule_sheet_deletion meets after its sleep: no gspread
\* client, open_by_key raises, del_spreadsheet raises, or the spreadsheet is
\* deleted.
DeletionOutcomes == {"no_client", "open_raises", "delete_raises", "deleted"}

\* schedule_sheet_deletion: the sleep and the body of one task.
ScheduledDeletion ==
    /\ hd_ran < hd_tasks
    /\ \E outcome \in DeletionOutcomes :
         /\ hd_ran' = hd_ran + 1
         /\ hd_slept' = DELETION_DELAY_HOURS
         \* `if gc:` has no else branch
         /\ hd_attempts' = (IF outcome = "no_client" THEN hd_attempts
                            ELSE hd_attempts + 1)
    /\ UNCHANGED <<hd_pc, hd_tasks>>
    /\ UNCHANGED <<schedVars, keyVars, execVars, ordVars, rangeVars, fsVars, adVars, reportVars>>

InitHandler ==
    /\ ReportStart
    /\ SchedIdle
    /\ KeysIdle
    /\ hd_pc = "run"
    /\ hd_tasks = 0
    /\ hd_ran = 0
    /\ hd_slept = 0
    /\ hd_attempts = 0

NextHandler ==
    \/ NextReport
    \/ HandlerSchedule
    \/ ScheduledDeletion

\* The bot keeps running: fill_pnl_report returns (its fetches are bounded),
\* the handler goes on after it, and the sleep of a created task ends.
SpecHandler ==
    /\ InitHandler
    /\ [][NextHandler]_vars
    /\ <>(rp_pc = "done")
    /\ WF_vars(HandlerSchedule)
    /\ WF_vars(ScheduledDeletion)

\* C39: every spreadsheet created by fill_pnl_report eventually has its
\* deletion attempted: inside fill_pnl_report when the run fails after the
\* spreadsheet was created, and after the 12-hour delay by exactly one
\* scheduled deletion task when the run succeeds; no deletion is scheduled
\* for a failed run.
C39_EverySheetDeletionAttempted ==
    /\ (rp_sheet = "created") ~> (rp_dels > 0 \/ hd_attempts > 0)
    /\ [](/\ (rp_pc = "done" /\ rp_ret = NoneBody) =>
                /\ rp_sheet \in {"none", "deleted", "delete_failed"}
                /\ hd_tasks = 0
          /\ (hd_pc = "menu" /\ rp_ret = Url) => hd_tasks = 1
          /\ hd_tasks <= 1
          /\ rp_dels > 0 => (rp_pc = "done" /\ rp_ret = NoneBody)
          /\ hd_attempts > 0 => (rp_ret = Url /\ hd_slept = 12))

(***************************************************************************)
(* main.validate_wb_api_key and the two handlers that store a key.  The    *)
(* answers of WB to a key are the statuses of the statistics endpoint, of  *)
(* its ping, of the advertising endpoint and of its ping; NONE stands for  *)
(* a request that raises.                                                  *)
(***************************************************************************)
ProbeStatuses == {200, 401, 500, NONE}
Probes == {"stat", "stat_ping", "ads", "ads_ping"}
\* A ping answers 200 or 500, or raises.
ProbeAnswers ==
    {a \in [Probes -> ProbeStatuses] : a["stat_ping"] # 401 /\ a["ads_ping"] # 401}
Keys == {"keyA", "keyB"}

\* One of the two try blocks of validate_wb_api_key: does it return False?
ProbeFails(api, ping) ==
    IF api = NONE THEN TRUE
    ELSE IF api = 401 THEN TRUE
    ELSE IF api # 200 THEN (ping = NONE \/ ping # 200)
    ELSE FALSE

validate_wb_api_key(answers) ==
    IF ProbeFails(answers["stat"], answers["stat_ping"]) THEN FALSE
    ELSE IF ProbeFails(answers["ads"], answers["ads_ping"]) THEN FALSE
    ELSE TRUE

KeyRejectedNever(is_valid) == FALSE

\* `if not is_valid:`
KeyRejected(is_valid) == ~is_valid

\* The record of a validation; turn tells two validations in a row apart.
Try(key, answers, is_valid) ==
    [key |-> key, answers |-> answers, verdict |-> is_valid,
     turn |-> IF ks_last = <<>> THEN 0 ELSE 1 - ks_last.turn]

\* /start of a user: add_user, and the menu that fits the stored key.
Start ==
    /\ ks_state' = (IF ks_stored = "none" THEN "add_shop" ELSE "main_menu")
    /\ UNCHANGED <<ks_stored, ks_answers, ks_last>>
    /\ UNCHANGED <<schedVars, handlerVars, execVars, ordVars, rangeVars, fsVars, adVars, reportVars>>

\* prompt_add_shop, show_settings_menu_handler, prompt_change_api and
\* back_to_settings_from_input: the callbacks that lead to and from the two
\* states in which a key is read.
KeyMenus ==
    /\ \/ ks_state = "add_shop" /\ ks_state' = "get_api_key"
       \/ ks_state = "main_menu" /\ ks_state' = "settings_menu"
       \/ ks_state = "settings_menu" /\ ks_state' = "change_api_key"
       \/ ks_state # "idle" /\ ks_state' = "settings_menu"
    /\ UNCHANGED <<ks_stored, ks_answers, ks_last>>
    /\ UNCHANGED <<schedVars, handlerVars, execVars, ordVars, rangeVars, fsVars, adVars, reportVars>>

\* save_api_key: the handler of a message in state get_api_key.
SaveApiKey ==
    /\ ks_state = "get_api_key"
    /\ \E api_key \in Keys, answers \in ProbeAnswers :
         LET is_valid == validate_wb_api_key(answers) IN
         /\ ks_last' = Try(api_key, answers, is_valid)
         /\ IF KeyRejected(is_valid)
            THEN UNCHANGED <<ks_stored, ks_answers, ks_state>>
            ELSE /\ ks_stored' = api_key
                 /\ ks_answers' = answers
                 /\ ks_state' = "main_menu"
    /\ UNCHANGED <<schedVars, handlerVars, execVars, ordVars, rangeVars, fsVars, adVars, reportVars>>

\* save_new_api_key: the handler of a message in state change_api_key.
SaveNewApiKey ==
    /\ ks_state = "change_api_key"
    /\ \E text \in Keys \cup {"back"}, answers \in ProbeAnswers :
         IF text = "back"
         THEN /\ ks_state' = "settings_menu"
              /\ UNCHANGED <<ks_stored, ks_answers, ks_last>>
         ELSE LET is_valid == validate_wb_api_key(answers) IN
              /\ ks_last' = Try(text, answers, is_valid)
              /\ IF KeyRejected(is_valid)
                 THEN UNCHANGED <<ks_stored, ks_answers, ks_state>>
                 ELSE /\ ks_stored' = text
                      /\ ks_answers' = answers
                      /\ ks_state' = "settings_menu"
    /\ UNCHANGED <<schedVars, handlerVars, execVars, ordVars, rangeVars, fsVars, adVars, reportVars>>

InitKeys ==
    /\ ks_state = "new"
    /\ ks_stored = "none"
    /\ ks_answers = <<>>
    /\ ks_last = <<>>
    /\ SchedIdle
    /\ HandlerIdle
    /\ ExecIdle
    /\ OrdersIdle
    /\ RangeIdle
    /\ AdvertIdle
    /\ ReportIdle

NextKeys ==
    \/ Start
    \/ KeyMenus
    \/ SaveApiKey
    \/ SaveNewApiKey

SpecKeys == InitKeys /\ [][NextKeys]_vars

\* A key fails validation when either API answers 401, or answers something
\* other than 200 while its ping does not answer 200, or a request raises.
FailsValidation(answers) ==
    \E p \in {<<"stat", "stat_ping">>, <<"ads", "ads_ping">>} :
        \/ answers[p[1]] = 401
        \/ answers[p[1]] = NONE
        \/ answers[p[1]] \notin {200, 401, NONE} /\ answers[p[2]] # 200

\* C40: the stored API key of a user is one that validate_wb_api_key accepted
\* when it was saved; a key that fails validation (401 from either API, a
\* non-200 answer whose ping is non-200 too, a request that raises) is never
\* written, and the stored key and the conversation state stay as they were.
C40_OnlyValidatedKeysStored ==
    /\ [](ks_stored # "none" => ~FailsValidation(ks_answers))
    /\ [][(ks_last' # ks_last /\ FailsValidation(ks_last'.answers)) =>
                /\ ~ks_last'.verdict
                /\ ks_stored' = ks_stored
                /\ ks_answers' = ks_answers
                /\ ks_state' = ks_state]_vars

\* A stored key has outlived the rejection of another key sent to replace it.
C40_Witness ==
    /\ ks_stored = "keyA"
    /\ ks_state = "change_api_key"
    /\ ks_last # <<>>
    /\ ks_last.key = "keyB"
    /\ ~ks_last.verdict

====
